---------------------------- MODULE Spec2Model ----------------------------
(***************************************************************************)
(* A model of debuntu_tools.remote_unlock.EncryptedSystem: the unlock      *)
(* sequence (wait_for_pre_boot, check_ssh_connection, offer_password,      *)
(* wait_for_post_boot, store_host_keys) and the watch loop around it.      *)
(*                                                                         *)
(* Time is counted in ticks that are finer than retry_interval, so that a  *)
(* probe can end anywhere inside a retry interval.  Only ssh-keyscan, the  *)
(* SSH connection test and the sleeps take time.                           *)
(*                                                                         *)
(* A Python value that may be None is a sequence of length 0 (None) or 1.  *)
(***************************************************************************)
EXTENDS Integers, Sequences, FiniteSets, TLC

\* ------------------------------------------------------------------ bounds

\* Number of distinct SSH host keys that exist.
NumKeys == 2
\* connect_timeout, boot_timeout and retry_interval of the session, in ticks.
ConnectTimeout == 3
BootTimeout == 3
RetryInterval == 2
\* The longest time one ssh-keyscan run or one SSH connection test takes.
MaxProbe == 2
\* The number of configuration sections that watch_all_systems is given.
NumSections == 3
\* The largest uptime that /proc/uptime reports, in ticks.
MaxUptime == 2
\* The largest number of characters of a password.
MaxPassword == 3
\* The number of kernel versions that packages exist for.
MaxKernels == 3
\* The largest preserve_count.
MaxPreserve == 2

Keys == 1..NumKeys
Durations == 0..MaxProbe

\* ------------------------------------------------------- ServerDetails

\* SSH server headers, as sequences of tokens ('' is the empty sequence).
\* The names of the servers are written with capitals, match_header is
\* called with 'dropbear' and 'openssh'.
Headers ==
    { <<>>,
      <<"SSH-2.0-", "Dropbear">>,
      <<"SSH-2.0-", "OpenSSH">> }

\* The sets of host keys a server presents or a configuration holds: none,
\* one key, or all keys.
KeySets == { {} } \cup { {k} : k \in Keys } \cup { Keys }

ServerDetails == [header : Headers, host_keys : KeySets]

\* str.lower() that leaves every character as it is.
Lower_as_is(token) == token

\* str.lower() on the tokens that occur.
Lower(token) ==
    CASE token = "OpenSSH" -> "openssh"
      [] token = "Dropbear" -> "dropbear"
      [] token = "SSH-2.0-" -> "ssh-2.0-"
      [] OTHER -> token

\* ServerDetails.match_header: header non-empty and substring.lower() in
\* header.lower().
match_header(server, substring) ==
    /\ server.header # <<>>
    /\ \E i \in DOMAIN server.header : Lower(server.header[i]) = Lower(substring)

\* ------------------------------------------------------------ shell command

\* The characters passwords are made of: a letter, the two characters of
\* an option of echo, and the quote character.
Alphabet == {"a", "n", "-", "'"}

\* The sequences over S of length n.
RECURSIVE Strings(_, _)
Strings(S, n) ==
    IF n = 0 THEN {<<>>}
    ELSE {Append(t, c) : t \in Strings(S, n - 1), c \in S}

\* The passwords that `if self.password` takes as set.
Passwords == UNION {Strings(Alphabet, n) : n \in 1 .. MaxPassword}

\* s.replace("'", "'\"'\"'")
RECURSIVE ReplaceQuotes(_)
ReplaceQuotes(str) ==
    IF str = <<>> THEN <<>>
    ELSE (IF Head(str) = "'" THEN <<"'", "\"", "'", "\"", "'">>
          ELSE <<Head(str)>>) \o ReplaceQuotes(Tail(str))

\* The characters quote() passes as they are.
SafeCharacters == {"a", "n", "-"}

\* quote(): the string as one word of a shell command line.
quote(str) ==
    IF str = <<>> THEN <<"'", "'">>
    ELSE IF \A i \in 1 .. Len(str) : str[i] \in SafeCharacters THEN str
    ELSE <<"'">> \o ReplaceQuotes(str) \o <<"'">>

\* The argument a shell passes for a word: quote removal, with quoting
\* "none", "single" or "double" at the head of the word.
RECURSIVE ShellWord(_, _)
ShellWord(word, quoting) ==
    IF word = <<>> THEN <<>>
    ELSE LET c == Head(word)
             rest == Tail(word)
         IN  CASE quoting = "none" /\ c = "'" -> ShellWord(rest, "single")
               [] quoting = "none" /\ c = "\"" -> ShellWord(rest, "double")
               [] quoting = "single" /\ c = "'" -> ShellWord(rest, "none")
               [] quoting = "double" /\ c = "\"" -> ShellWord(rest, "none")
               [] OTHER -> <<c>> \o ShellWord(rest, quoting)

\* The echo builtins of the shells of a pre-boot environment: busybox ash
\* takes every leading argument made of -n, -e, -E letters as options, dash
\* only a first argument that is -n.
Shells == {"ash", "dash"}

\* Whether echo of the shell takes the argument as options.
IsEchoOption(arg) ==
    /\ Len(arg) > 1
    /\ arg[1] = "-"
    /\ \A i \in 2 .. Len(arg) : arg[i] \in {"n", "e", "E"}

\* The arguments echo writes, after the options it takes.
RECURSIVE EchoOperands(_, _)
EchoOperands(shell, args) ==
    IF args # <<>> /\ shell = "ash" /\ IsEchoOption(Head(args))
    THEN EchoOperands(shell, Tail(args))
    ELSE args

\* The arguments joined by spaces.
RECURSIVE JoinWords(_)
JoinWords(args) ==
    IF args = <<>> THEN <<>>
    ELSE IF Len(args) = 1 THEN args[1]
    ELSE args[1] \o <<" ">> \o JoinWords(Tail(args))

\* What `echo -n word` writes to its standard output under the shell.
Echo(shell, word) ==
    JoinWords(EchoOperands(shell, << ShellWord(word, "none") >>))

\* -------------------------------------------------- KernelPackageManager

\* The kernel versions that package names encode, oldest first.
KernelVersions == 1 .. MaxKernels

\* The kinds of supported packages: kernel images (is_kernel_package) and
\* kernel headers (is_header_package; modules packages are treated alike).
Kinds == {"headers", "image"}

\* MaybeKernelPackage objects of installed, supported packages.  The
\* version of the package grows with version_in_name.
KernelPackages == [kind : Kinds, version_in_name : KernelVersions]

\* MaybeKernelPackage.name
PackageName(package) == << "linux", package.kind, package.version_in_name >>

\* KernelPackageManager.active_kernel_package
active_kernel_package(release) == << "linux", "image", release >>

\* KernelPackageManager.installed_package_groups: the packages grouped by
\* version_in_name, the groups sorted by version, from `first` on.
RECURSIVE installed_package_groups(_, _)
installed_package_groups(installed, first) ==
    IF first > MaxKernels THEN <<>>
    ELSE LET group == {package \in installed : package.version_in_name = first}
         IN  (IF group = {} THEN <<>> ELSE << group >>)
             \o installed_package_groups(installed, first + 1)

\* A test of the active kernel that no group passes.
IsActive_never(group, release) == FALSE

\* any(package.name == self.active_kernel_package for package in group)
IsActive(group, release) ==
    \E package \in group : PackageName(package) = active_kernel_package(release)

\* any(package.is_kernel_package for package in group)
HasKernel(group) == \E package \in group : package.kind = "image"

\* The loop of removable_package_groups over the groups from index i on:
\* the value of preserve_count, will_remove and may_remove at its end.
RECURSIVE Classify(_, _, _, _)
Classify(groups, release, i, found) ==
    IF i > Len(groups) THEN found
    ELSE LET group == groups[i]
         IN  Classify(groups, release, i + 1,
                 CASE IsActive(group, release) ->
                          [found EXCEPT !.preserve_count = @ - 1]
                   [] ~HasKernel(group) ->
                          [found EXCEPT !.will_remove = Append(@, group)]
                   [] OTHER ->
                          [found EXCEPT !.may_remove = Append(@, group)])

\* list[:-count] for a count above zero.
DropLast(list, count) ==
    IF count >= Len(list) THEN <<>> ELSE SubSeq(list, 1, Len(list) - count)

\* KernelPackageManager.removable_package_groups
RemovablePackageGroups(installed, release, count) ==
    LET found == Classify(installed_package_groups(installed, 1), release, 1,
                          [preserve_count |-> count, will_remove |-> <<>>,
                           may_remove |-> <<>>])
    IN  found.will_remove \o
        (IF found.preserve_count > 0
         THEN DropLast(found.may_remove, found.preserve_count)
         ELSE found.may_remove)

\* sorted(package.name for package in group)
SortedNames(group) ==
    (IF \E package \in group : package.kind = "headers"
     THEN << PackageName(CHOOSE package \in group : package.kind = "headers") >>
     ELSE <<>>)
    \o (IF \E package \in group : package.kind = "image"
        THEN << PackageName(CHOOSE package \in group : package.kind = "image") >>
        ELSE <<>>)

\* The names of the packages of the groups, group after group.
RECURSIVE GroupNames(_)
GroupNames(groups) ==
    IF groups = <<>> THEN <<>>
    ELSE SortedNames(Head(groups)) \o GroupNames(Tail(groups))

\* KernelPackageManager.cleanup_command: every word of the command line
\* as a sequence of tokens, like the names.
CleanupCommand(apt_options, removable) ==
    IF removable = <<>> THEN <<>>
    ELSE << <<"apt-get">>, <<"remove">>, <<"--purge">> >>
         \o apt_options \o GroupNames(removable)

\* The values of preserve_count.
PreserveCounts == 0 .. MaxPreserve

\* KernelPackageManager.preserve_count when the caller gives none.
DefaultPreserveCount == 2

MaxMeta == 2

\* Options of apt-get, character by character: --yes, --dry-run, -s, -y.
Yes == << "-", "-", "y", "e", "s" >>
DryRun == << "-", "-", "d", "r", "y", "-", "r", "u", "n" >>
Simulate == << "-", "s" >>
AssumeYes == << "-", "y" >>

\* The lists of options that KernelPackageManager.apt_options is given.
AptOptions == { <<>>, <<Yes>>, <<DryRun>>, <<AssumeYes, Simulate>> }

\* The long options that dry_run knows; every one is tested the same way.
SimulateOptions == { DryRun }

\* KernelPackageManager.dry_run: a short option with the letter s, or one
\* of the long options.
dry_run(apt_options) ==
    \E i \in DOMAIN apt_options :
        LET argument == apt_options[i]
        IN  \/ /\ Len(argument) >= 2
               /\ argument[1] = "-"
               /\ argument[2] # "-"
               /\ \E k \in DOMAIN argument : argument[k] = "s"
            \/ argument \in SimulateOptions

\* There is no KernelPackageManager.
NoManager ==
    [installed_packages |-> {}, active_kernel_release |-> 0,
     preserve_count |-> 0, removable_package_groups |-> <<>>,
     cleanup_command |-> <<>>, pc |-> "none",
     force |-> FALSE, apt_options |-> <<>>, image_meta_packages |-> 0,
     reboot_required |-> FALSE, cached |-> {}, summary |-> <<>>,
     result |-> <<>>]

\* A new KernelPackageManager: what dpkg --list and uname report (release
\* 0 is a kernel no installed package belongs to) and the preserve_count
\* it was given.  The cached properties are not computed yet.
Managers ==
    { [NoManager EXCEPT
         !.installed_packages = packages,
         !.active_kernel_release = release,
         !.preserve_count = count,
         !.cached = {"packages"},
         !.pc = "constructed"] :
        packages \in SUBSET KernelPackages,
        release \in {0} \cup KernelVersions,
        count \in PreserveCounts }

\* A new KernelPackageManager that cleanup_packages is called on: nothing
\* is cached yet.
CleanupManagers ==
    { [NoManager EXCEPT
         !.preserve_count = count,
         !.force = forced,
         !.apt_options = options,
         !.pc = "cleanup_packages"] :
        count \in PreserveCounts, forced \in BOOLEAN, options \in AptOptions }

\* The kernel image packages, the only packages of the systems that
\* cleanup_packages and upgrade_remote_system are followed on.
ImagePackages == {package \in KernelPackages : package.kind = "image"}

\* There is no system.
NoContext ==
    [installed_packages |-> {}, kernel_release |-> 0,
     reboot_required |-> FALSE, image_meta_packages |-> 0,
     commands |-> <<>>]

\* The systems: the installed kernel images, the release of the running
\* kernel, whether REBOOT_REQUIRED_FILE exists and the number of installed
\* kernel image meta packages.  No command was run yet.
Contexts ==
    [installed_packages : SUBSET ImagePackages,
     kernel_release : {0} \cup KernelVersions,
     reboot_required : BOOLEAN,
     image_meta_packages : 0..MaxMeta,
     commands : {<<>>}]

\* A cached property is computed on first use: the manager with the group
\* `name` of properties read from the system unless it holds them already.
Cached(m, system, name) ==
    IF name \in m.cached THEN m
    ELSE IF name = "reboot_required"
    THEN [m EXCEPT !.reboot_required = system.reboot_required,
                   !.cached = @ \cup {name}]
    ELSE [m EXCEPT !.installed_packages = system.installed_packages,
                   !.active_kernel_release = system.kernel_release,
                   !.image_meta_packages = system.image_meta_packages,
                   !.cached = @ \cup {name}]

\* PropertyManager.clear_cached_properties
clear_cached_properties(m) ==
    [m EXCEPT !.cached = {}, !.removable_package_groups = <<>>,
              !.cleanup_command = <<>>]

\* installed_package_groups[-1] raises IndexError on an empty list.
NoGroups(m) == installed_package_groups(m.installed_packages, 1) = <<>>

\* KernelPackageManager.running_newest_kernel, of a manager with groups.
running_newest_kernel(m) ==
    LET groups == installed_package_groups(m.installed_packages, 1)
    IN  IsActive(groups[Len(groups)], m.active_kernel_release)

\* upgrade_remote_system is not running.
NoUpgrade == [pc |-> "none", error |-> "none"]

\* upgrade_remote_system is called.
Upgrades == { [pc |-> "smart_update", error |-> "none"] }

\* The KernelPackageManager that upgrade_remote_system creates.
UpgradeManager ==
    [NoManager EXCEPT !.preserve_count = DefaultPreserveCount,
                      !.apt_options = <<Yes>>,
                      !.pc = "constructed"]

\* ------------------------------------- offer_password, command by command

MaxPid == 3
MaxListing == 2
MaxEntries == 2

\* EncryptedSystem.cryptroot_program, cryptroot_config and key_script
CryptrootProgram == "/scripts/local-top/cryptroot"
CryptrootConfig == "/conf/conf.d/cryptroot"
KeyScript == "/tmp/keyscript.sh"
EmergencyShell == "/bin/sh"

\* The lines that `ps` prints: the first token is a process id or, on the
\* line of column titles, not a number (pid = <<>>); `command` holds the
\* tokens behind it (none when the line has a single token).
PsCommands ==
    { <<>>, <<EmergencyShell, "-i">>, <<EmergencyShell, CryptrootProgram>> }

PsLines == [pid : {<<>>} \cup {<<n>> : n \in 1..MaxPid}, command : PsCommands]

Listings == UNION { [1..n -> PsLines] : n \in 0..MaxListing }

\* The test of find_process_id without `pid != 1`.
IsProgram_init_too(line, program_name) ==
    /\ line.command # <<>>
    /\ line.pid # <<>>
    /\ \E i \in DOMAIN line.command : line.command[i] = program_name

\* The test that find_process_id applies to a line of the listing.
IsProgram(line, program_name) ==
    /\ line.command # <<>>
    /\ line.pid # <<>>
    /\ \E i \in DOMAIN line.command : line.command[i] = program_name
    /\ line.pid[1] # 1

\* EncryptedSystem.find_process_id(program) on a listing: <<>> for None.
find_process_id(listing, program_name) ==
    LET found == SelectSeq(listing, LAMBDA line : IsProgram(line, program_name))
    IN  IF found = <<>> THEN <<>> ELSE found[1].pid

\* How a command run over SSH ends: exit status zero, another exit status
\* (RemoteCommandFailed), or no connection (RemoteConnectFailed).
CommandOutcomes == {"succeeded", "failed", "connect failed"}

\* The commands that offer_password runs in the pre-boot environment, each
\* with the way it ended.
RemoteCommand(name, process, pathname, terminal, ended) ==
    [command |-> name, pid |-> process, path |-> pathname, tty |-> terminal,
     outcome |-> ended]

Ps(ended) == RemoteCommand("ps", 0, "", FALSE, ended)
Kill(process, ended) == RemoteCommand("kill -9", process, "", FALSE, ended)
WriteFile(pathname) == RemoteCommand("write_file", 0, pathname, FALSE, "succeeded")
Chmod(pathname) == RemoteCommand("chmod 700", 0, pathname, FALSE, "succeeded")
ReadFile(pathname) == RemoteCommand("read_file", 0, pathname, FALSE, "succeeded")
RunCryptroot(terminal) ==
    RemoteCommand(CryptrootProgram, 0, "", terminal, "succeeded")
WriteToPipe == RemoteCommand("write_to_named_pipe", 0, "", FALSE, "succeeded")

\* The entries of /conf/conf.d/cryptroot, each a line of comma separated
\* options; some name a key script already.
CryptrootEntries ==
    { <<"target=root", "source=/dev/sda2">>,
      <<"target=root", "source=/dev/sda2", "keyscript=/bin/true">> }

CryptrootFiles == UNION { [1..n -> CryptrootEntries] : n \in 0..MaxEntries }

\* '%s,keyscript=%s\n' % (line.strip(), self.key_script) for every line
WithKeyScript(contents) ==
    [i \in DOMAIN contents |-> Append(contents[i], "keyscript=" \o KeyScript)]

\* offer_password is not running command by command.
NoDelivery ==
    [pc |-> "none", mechanism |-> "none", found |-> <<>>, log |-> <<>>,
     key_script |-> "missing", cryptroot_config |-> <<>>]

\* The pre-boot environment when offer_password is called: no key script
\* yet, any cryptroot configuration.
Deliveries ==
    [pc : {"offer_password"}, mechanism : {"none"}, found : {<<>>},
     log : {<<>>}, key_script : {"missing"}, cryptroot_config : CryptrootFiles]

\* find_process_id(program) about to read any listing, for either of the
\* programs that offer_password looks for.
Searches ==
    { [NoDelivery EXCEPT
         !.pc = "find_process_id",
         !.found = << [program |-> program_name, listing |-> listing,
                       pid |-> <<>>] >>] :
        program_name \in {CryptrootProgram, EmergencyShell},
        listing \in Listings }

\* ------------------------------------------------ configuration values

\* '\n'.join(sorted(keys)): the keys in ascending order.
RECURSIVE JoinSorted(_)
JoinSorted(keys) ==
    IF keys = {} THEN <<>>
    ELSE LET least == CHOOSE k \in keys : \A other \in keys : k <= other
         IN  <<least>> \o JoinSorted(keys \ {least})

\* str.split() of an option value, as a set.
SplitSet(value) == { value[i] : i \in DOMAIN value }

\* The configurations a session can be loaded with: no host keys known, or
\* the host keys an earlier store_host_keys call wrote.
Configs ==
    { [pre |-> <<>>, post |-> <<>>] }
    \cup { [pre |-> <<JoinSorted(ab[1])>>, post |-> <<JoinSorted(ab[2])>>] :
             ab \in { x \in (KeySets \ {{}}) \X (KeySets \ {{}}) : x[1] # x[2] } }

VARIABLES
    mode,            \* "unlock" (unlock_system) or "watch" (watch_system)
    interactive,     \* EncryptedSystem.interactive
    same_port,       \* pre_boot.port_number = post_boot.port_number
    config_section,  \* whether EncryptedSystem.config_section is set
    config,          \* the options loaded once: pre/post-boot-host-keys
    hostkeys_file,   \* this section's options in HOST_KEYS_FILE
    password,        \* <<>> until read, then <<TRUE>> (set) or <<FALSE>>
    pc,              \* the method the session is in
    error,           \* the exception that ended the session, or "none"
    named_paths,     \* the paths an UnsupportedSystemError message names
    server,          \* the ServerDetails of the last pre-boot scan
    post_server,     \* the ServerDetails of the last post-boot scan
    rule,            \* what the last pre-boot iteration logged
    consent,         \* the operator answered yes to "Continue connecting anyway?"
    elapsed,         \* the time since the wait that is running, or that
                     \* raised, was called (0 once a wait has returned)
    probe_time,      \* how long the last probe of that wait took
    method,          \* what wait_for_post_boot logged it is based on
    detected,        \* which change wait_for_post_boot logged
    pre_host,        \* the pre-boot host's files when offer_password ran
    executed,        \* what the last step ran in the pre-boot environment
    steps,           \* the methods the current unlock_system call has entered
    connected,       \* <<>> or the result of check_ssh_connection's test
    baseline,        \* <<>> or the pre_server wait_for_post_boot was given
    known_hosts,     \* HOST_KEYS_FILE: the entry of each of its sections
    known_hosts0,    \* HOST_KEYS_FILE as it was before the first call
    writers,         \* the sessions that call store_host_keys
    pool,            \* the state of each worker of watch_all_systems
    parent,          \* where watch_all_systems is
    fail_fast,       \* Pool.map raises at the first task that fails
    command,         \* the command whose main() runs, or "none"
    main_pc,         \* where main() is
    arguments,       \* what the command line holds
    profile,         \* whether the connection profile expression parses
    control_directory,  \* "none", then "exists", then "removed"
    exit_code,       \* <<>> or the exit status of the process
    reboot,          \* the locals of reboot_remote_system
    secret,          \* the characters of the password, <<>> when left out
    named_pipe,      \* what was written to the named pipe, oldest first
    manager,         \* the properties of a KernelPackageManager
    delivery,        \* offer_password, one remote command at a time
    upgrade,         \* upgrade_remote_system, one remote command at a time
    context          \* the system that the KernelPackageManager works on

vars ==
    << mode, interactive, same_port, config_section, config, hostkeys_file,
       password, pc, error, named_paths, server, post_server, rule, consent, elapsed,
       probe_time, method, detected, pre_host, executed, steps, connected,
       baseline, known_hosts, known_hosts0, writers, pool, parent, fail_fast,
       command, main_pc, arguments, profile, control_directory, exit_code,
       reboot, secret, named_pipe, manager, delivery, upgrade, context >>

\* The host-key file as several sessions share it, and the workers of
\* watch_all_systems: what a single session does not touch.
shared_file == << known_hosts, known_hosts0, writers >>
worker_pool == << pool, parent, fail_fast >>

\* What belongs to main() and to the `with` statement around the session.
program ==
    << command, main_pc, arguments, profile, control_directory, exit_code,
       reboot >>

\* What the steps of a session leave as it is.
session ==
    << mode, interactive, same_port, config_section, config, program,
       secret, named_pipe, manager, delivery, upgrade, context >>

\* All that belongs to the one session that unlocks or watches.
unlock_session ==
    << session, hostkeys_file, password, pc, error, named_paths, server,
       post_server, rule, consent, elapsed, probe_time, method, detected,
       pre_host, executed, steps, connected, baseline >>

\* EncryptedSystem.get_known_host_keys('pre-boot-host-keys')
get_known_host_keys(option) ==
    IF option = <<>> THEN {} ELSE SplitSet(option[1])

known_keys == get_known_host_keys(config.pre)

\* The session is inside its `with` statement and nothing was raised.
Running == error = "none" /\ main_pc = "body"

\* The session after construction, before `entry` ("unlock": unlock_system,
\* "watch": watch_system) is called on it.
Constructed(entry) ==
    /\ mode = entry
    /\ interactive \in BOOLEAN
    /\ same_port \in BOOLEAN
    /\ config_section \in BOOLEAN
    /\ config \in Configs
    /\ (~config_section => config = [pre |-> <<>>, post |-> <<>>])
    /\ hostkeys_file = config
    /\ password = <<>>
    /\ pc = CASE mode = "watch" -> "watch_system"
              [] mode = "unlock" -> "wait_for_pre_boot"
              [] mode = "offer_password" -> "offer_password"
              [] mode = "wait_for_post_boot" -> "wait_for_post_boot"
              [] mode = "deliver" -> "offer_password"
              [] OTHER -> "none"
    /\ secret \in IF mode = "offer_password" THEN Passwords ELSE {<<>>}
    /\ named_pipe = <<>>
    /\ manager \in CASE mode = "cleanup" -> Managers
                     [] mode = "cleanup_packages" -> CleanupManagers
                     [] OTHER -> {NoManager}
    /\ delivery \in CASE mode = "deliver" -> Deliveries
                      [] mode = "find_process_id" -> Searches
                      [] OTHER -> {NoDelivery}
    /\ upgrade \in IF mode = "upgrade" THEN Upgrades ELSE {NoUpgrade}
    /\ context \in IF mode \in {"cleanup_packages", "upgrade"}
                   THEN Contexts ELSE {NoContext}
    /\ error = "none"
    /\ named_paths = {}
    /\ server \in IF mode = "wait_for_post_boot"
                  THEN {<<pre_server>> : pre_server \in ServerDetails}
                  ELSE {<<>>}
    /\ post_server = <<>>
    /\ rule = "none"
    /\ consent = FALSE
    /\ elapsed = 0
    /\ probe_time = 0
    /\ method = "none"
    /\ detected = "none"
    /\ pre_host = <<>>
    /\ executed = <<>>
    /\ steps = <<>>
    /\ connected = <<>>
    /\ baseline = <<>>

\* No section has an entry in HOST_KEYS_FILE.
EmptyFile == [section \in {0, 1, 2} |-> <<>>]

\* There is no pool of workers.
NoPool ==
    /\ pool = <<>>
    /\ parent = "none"
    /\ fail_fast = FALSE

\* No other session uses the host-key file and there is no pool of workers.
Alone ==
    /\ known_hosts = EmptyFile
    /\ known_hosts0 = EmptyFile
    /\ writers = <<>>
    /\ NoPool

\* reboot_remote_system is not running.
NoReboot ==
    [pc |-> "none", needs_unlock |-> FALSE, issued |-> FALSE,
     dropped |-> FALSE, old_uptime |-> 0, error |-> "none"]

\* main() of unlock-remote-system has parsed its arguments and has entered
\* the `with` statement.
InBody ==
    /\ command = "unlock-remote-system"
    /\ main_pc = "body"
    /\ arguments = IF config_section THEN "section" ELSE "expression"
    /\ profile = "parsed"
    /\ control_directory = "exists"
    /\ exit_code = <<>>
    /\ reboot = NoReboot

\* No command runs.
NoCommand ==
    /\ command = "none"
    /\ main_pc = "none"
    /\ arguments = "none"
    /\ profile = "parsed"
    /\ control_directory = "none"
    /\ exit_code = <<>>
    /\ reboot = NoReboot

\* main() calls unlock_system().
Init == Constructed("unlock") /\ Alone /\ InBody

\* main() or watch_worker() calls watch_system().  The loop never reads
\* `interactive` (only wait_for_pre_boot does): it has the value that
\* watch_worker passes.
WatchInit == Constructed("watch") /\ ~interactive /\ Alone /\ InBody

\* A session that is constructed and not run.
Parked ==
    /\ Constructed("none")
    /\ ~interactive
    /\ ~same_port
    /\ ~config_section
    /\ NoCommand


\* -------------------------------------------------------- wait_for_pre_boot

\* elapsed_time read from the iteration's timer instead of the method's.
elapsed_time_of_iteration(started, d) == d

\* method_timer.elapsed_time after a probe that took `d`, in an iteration
\* that began `started` after the wait was called.
elapsed_time(started, d) == started + d

\* humanfriendly's Timer.sleep(seconds), called on the iteration timer: the
\* time still to sleep when the iteration has run for `spent`.
sleep(spent, seconds) == IF spent < seconds THEN seconds - spent ELSE 0

\* The clock stopped: no time passes between the iterations of a wait.
method_timer_stopped(started, d, outcome) == started

\* The time since the wait was called, after an iteration that began at
\* `started`, probed for `d` and ended in `outcome`: a wait that retries
\* sleeps the rest of retry_interval first; a wait that returned is over.
method_timer(started, d, outcome) ==
    CASE outcome = "return" -> 0
      [] outcome = "retry" -> started + d + sleep(d, RetryInterval)
      [] OTHER -> started + d

\* The methods unlock_system has entered once `step` runs: `step` is added
\* when it is entered, not again by the later iterations of its loop.
Entered(step) ==
    IF steps # <<>> /\ steps[Len(steps)] = step THEN steps
    ELSE Append(steps, step)

\* PreBootRule with the banner tests as a chain of their own (`if` where
\* the code has `elif`): host keys that are not known fall through to them.
PreBootRule_banner_after_keys(srv, known) ==
    IF srv.host_keys # {} /\ known # {} /\ srv.host_keys \cap known # {}
    THEN "known_keys"
    ELSE IF match_header(srv, "dropbear") THEN "dropbear"
    ELSE IF match_header(srv, "openssh") THEN "openssh"
    ELSE IF srv.host_keys # {} /\ known # {} THEN "post_boot_keys"
    ELSE "none"

\* The if/elif chain of one wait_for_pre_boot iteration, named by what it
\* logs: the known keys matched, other keys answered (the post-boot
\* environment was detected), Dropbear or OpenSSH was detected, or nothing.
PreBootRule(srv, known) ==
    IF srv.host_keys # {} /\ known # {}
    THEN IF srv.host_keys \cap known # {} THEN "known_keys" ELSE "post_boot_keys"
    ELSE IF match_header(srv, "dropbear") THEN "dropbear"
    ELSE IF match_header(srv, "openssh") THEN "openssh"
    ELSE "none"

\* PreBootOutcome that goes on whatever the operator answers.
PreBootOutcome_any_answer(r, is_interactive, answer, now) ==
    IF r \in {"known_keys", "dropbear", "openssh"} THEN "return"
    ELSE IF now >= ConnectTimeout THEN "timeout"
    ELSE "retry"

\* How the iteration ends: "return" (break), "abort" (UnlockAbortedError),
\* "timeout" (SystemUnreachableError) or "retry" (sleep and scan again).
\* `answer` is what prompt_for_confirmation returns; `now` is
\* method_timer.elapsed_time when the timeout is tested.
PreBootOutcome(r, is_interactive, answer, now) ==
    IF r \in {"known_keys", "dropbear"} THEN "return"
    ELSE IF r = "openssh"
    THEN IF is_interactive /\ ~answer THEN "abort" ELSE "return"
    ELSE IF now >= ConnectTimeout THEN "timeout"
    ELSE "retry"

\* One iteration of the loop of wait_for_pre_boot.
wait_for_pre_boot ==
    /\ pc = "wait_for_pre_boot"
    /\ Running
    \* self.pre_boot is built from the expression when it is first read.
    /\ IF profile = "unparsable"
       THEN /\ error' = "ValueError"
            /\ UNCHANGED << server, rule, consent, probe_time, elapsed, pc >>
       ELSE
            \E srv \in ServerDetails, d \in Durations, answer \in BOOLEAN :
                LET r == PreBootRule(srv, known_keys)
                    now == elapsed_time(elapsed, d)
                    outcome == PreBootOutcome(r, interactive, answer, now)
                IN  /\ server' = <<srv>>
                    /\ rule' = r
                    /\ consent' = (r = "openssh" /\ interactive /\ answer)
                    /\ probe_time' = IF outcome = "return" THEN 0 ELSE d
                    /\ elapsed' = method_timer(elapsed, d, outcome)
                    /\ pc' = IF outcome = "return"
                             THEN "check_ssh_connection" ELSE pc
                    /\ error' = CASE outcome = "abort" -> "UnlockAbortedError"
                                  [] outcome = "timeout" -> "SystemUnreachableError"
                                  [] OTHER -> "none"
    /\ executed' = <<>>
    /\ steps' = Entered("wait_for_pre_boot")
    /\ UNCHANGED << session, hostkeys_file, password, named_paths, post_server,
                    method, detected, pre_host, connected, baseline >>
    /\ UNCHANGED << shared_file, worker_pool >>

\* ----------------------------------------------------- check_ssh_connection

\* check_ssh_connection that only logs the result of the test.
CheckRaises_never(ok) == FALSE

\* check_ssh_connection raises SystemUnreachableError unless
\* test_ssh_connection(pre_boot, pre_context) succeeded.
CheckRaises(ok) == ~ok

\* check_ssh_connection.
check_ssh_connection ==
    /\ pc = "check_ssh_connection"
    /\ Running
    /\ \E ok \in BOOLEAN :
         /\ executed' = << [op |-> "test_ssh_connection", result |-> ok] >>
         /\ connected' = <<ok>>
         /\ pc' = IF CheckRaises(ok) THEN pc ELSE "offer_password"
         /\ error' = IF CheckRaises(ok) THEN "SystemUnreachableError" ELSE "none"
    /\ steps' = Entered("check_ssh_connection")
    /\ UNCHANGED << session, hostkeys_file, password, named_paths, server,
                    post_server, rule, consent, elapsed, probe_time, method,
                    detected, pre_host, baseline >>
    /\ UNCHANGED << shared_file, worker_pool >>

\* ----------------------------------------------------------- offer_password

\* The files of the pre-boot host that the capability probes look for.
PreHosts ==
    [named_pipe : BOOLEAN, cryptroot_config : BOOLEAN, cryptroot_program : BOOLEAN]

Probe(name, found) == [op |-> name, result |-> found]
Did(name) == [op |-> name, result |-> TRUE]

\* InteractiveFallback that kills the prompt before it looks for the program.
InteractiveFallback_kill_first(host) ==
    IF host.cryptroot_program
    THEN << Did("kill_interactive_prompt"),
            Probe("have_cryptroot_program", TRUE),
            Did("run_cryptroot_program(interactive=True)"),
            Did("kill_emergency_shell") >>
    ELSE << Did("kill_interactive_prompt"),
            Probe("have_cryptroot_program", FALSE) >>

\* The end of offer_password: the interactive prompt when the cryptroot
\* program exists.
InteractiveFallback(host) ==
    IF host.cryptroot_program
    THEN << Probe("have_cryptroot_program", TRUE),
            Did("kill_interactive_prompt"),
            Did("run_cryptroot_program(interactive=True)"),
            Did("kill_emergency_shell") >>
    ELSE << Probe("have_cryptroot_program", FALSE) >>

\* OfferPassword without the `return` after write_to_named_pipe: the call
\* goes on to the key script.
OfferPassword_no_return(have_password, host) ==
    IF have_password
    THEN (IF host.named_pipe
          THEN << Probe("have_named_pipe", TRUE),
                  Did("write_to_named_pipe") >>
          ELSE << Probe("have_named_pipe", FALSE) >>)
         \o (IF host.cryptroot_config
             THEN << Probe("have_cryptroot_config", TRUE),
                     Did("kill_interactive_prompt"),
                     Did("create_key_script"),
                     Did("run_cryptroot_program(interactive=False)"),
                     Did("kill_emergency_shell") >>
             ELSE << Probe("have_cryptroot_config", FALSE) >>
                  \o InteractiveFallback(host))
    ELSE InteractiveFallback(host)

\* OfferPassword without the test of the password: the non-interactive
\* mechanisms are tried whether or not there is a password.
OfferPassword_any_password(have_password, host) ==
    IF host.named_pipe
    THEN << Probe("have_named_pipe", TRUE),
            Did("write_to_named_pipe") >>
    ELSE IF host.cryptroot_config
    THEN << Probe("have_named_pipe", FALSE),
            Probe("have_cryptroot_config", TRUE),
            Did("kill_interactive_prompt"),
            Did("create_key_script"),
            Did("run_cryptroot_program(interactive=False)"),
            Did("kill_emergency_shell") >>
    ELSE << Probe("have_named_pipe", FALSE),
            Probe("have_cryptroot_config", FALSE) >>
         \o InteractiveFallback(host)

\* What offer_password runs in the pre-boot environment, in order: the
\* capability probes with their results and the actions taken.
OfferPassword(have_password, host) ==
    IF have_password
    THEN IF host.named_pipe
         THEN << Probe("have_named_pipe", TRUE),
                 Did("write_to_named_pipe") >>
         ELSE IF host.cryptroot_config
         THEN << Probe("have_named_pipe", FALSE),
                 Probe("have_cryptroot_config", TRUE),
                 Did("kill_interactive_prompt"),
                 Did("create_key_script"),
                 Did("run_cryptroot_program(interactive=False)"),
                 Did("kill_emergency_shell") >>
         ELSE << Probe("have_named_pipe", FALSE),
                 Probe("have_cryptroot_config", FALSE) >>
              \o InteractiveFallback(host)
    ELSE InteractiveFallback(host)

\* offer_password raises UnsupportedSystemError when it falls off its end.
OfferPasswordRaises(have_password, host) ==
    LET ran == OfferPassword(have_password, host)
    IN  ran[Len(ran)] = Probe("have_cryptroot_program", FALSE)

\* The paths the UnsupportedSystemError message is formatted with.
UnsupportedSystemPaths == {"named_pipe", "cryptroot_config", "cryptroot_program"}

\* offer_password.  The password property is cached: it is read on the first
\* call and kept for the later ones.
offer_password ==
    /\ pc = "offer_password"
    /\ Running
    /\ \E pw \in BOOLEAN, host \in PreHosts :
         /\ (password # <<>> => pw = password[1])
         /\ password' = <<pw>>
         /\ pre_host' = <<host>>
         /\ executed' = OfferPassword(pw, host)
         /\ IF OfferPasswordRaises(pw, host)
            THEN /\ error' = "UnsupportedSystemError"
                 /\ named_paths' = UnsupportedSystemPaths
                 /\ pc' = pc
            ELSE /\ error' = "none"
                 /\ named_paths' = {}
                 /\ pc' = "wait_for_post_boot"
    /\ steps' = Entered("offer_password")
    /\ UNCHANGED << session, hostkeys_file, server, post_server, rule, consent,
                    elapsed, probe_time, method, detected, connected, baseline >>
    /\ UNCHANGED << shared_file, worker_pool >>

\* write_to_named_pipe: what `echo -n <password> > <named_pipe>` leaves in
\* the named pipe when the shell of the pre-boot environment runs it.
WriteToNamedPipe(shell, pw) == Echo(shell, quote(pw))

\* offer_password of a session whose password is the characters of secret.
offer_password_with_secret ==
    /\ pc = "offer_password"
    /\ Running
    /\ secret # <<>>
    /\ \E host \in PreHosts, shell \in Shells :
         LET ran == OfferPassword(TRUE, host)
             writes == {i \in 1 .. Len(ran) : ran[i] = Did("write_to_named_pipe")}
         IN  /\ password' = <<TRUE>>
             /\ pre_host' = <<host>>
             /\ executed' = ran
             /\ named_pipe' = IF writes = {} THEN named_pipe
                              ELSE Append(named_pipe,
                                          WriteToNamedPipe(shell, secret))
             /\ IF OfferPasswordRaises(TRUE, host)
                THEN /\ error' = "UnsupportedSystemError"
                     /\ named_paths' = UnsupportedSystemPaths
                     /\ pc' = pc
                ELSE /\ error' = "none"
                     /\ named_paths' = {}
                     /\ pc' = "wait_for_post_boot"
    /\ steps' = Entered("offer_password")
    /\ UNCHANGED << mode, interactive, same_port, config_section, config,
                    program, secret, manager, delivery, upgrade, context >>
    /\ UNCHANGED << hostkeys_file, server, post_server, rule, consent,
                    elapsed, probe_time, method, detected, connected, baseline >>
    /\ UNCHANGED << shared_file, worker_pool >>

\* ---------------------------------------------------------- store_host_keys

\* The options store_host_keys computes from the two servers.
HostKeyOptions(pre_server, post_server_) ==
    [pre |-> << JoinSorted(pre_server.host_keys) >>,
     post |-> << JoinSorted(post_server_.host_keys) >>]

\* store_host_keys that does not test config_section.
store_host_keys_any_session(file, pre_server, post_server_) ==
    IF HostKeyOptions(pre_server, post_server_) # config
    THEN HostKeyOptions(pre_server, post_server_)
    ELSE file

\* store_host_keys: the section's options in HOST_KEYS_FILE afterwards.  The
\* file is written when there is a configuration section and the loaded
\* configuration does not already hold both values.
store_host_keys(file, pre_server, post_server_) ==
    IF config_section /\ HostKeyOptions(pre_server, post_server_) # config
    THEN HostKeyOptions(pre_server, post_server_)
    ELSE file

\* ------------------------------------------------------------ HOST_KEYS_FILE

\* The sessions that store host keys in the one HOST_KEYS_FILE: session w has
\* config_section w.  Section 0 of the file belongs to no session.
Writers == {1, 2}
FileSections == {0} \cup Writers

\* The options store_host_keys is called with for a host whose pre-boot
\* host key is key 1: wait_for_post_boot calls it when the post-boot host
\* keys are not empty and differ from the pre-boot ones.
StoreCalls ==
    { HostKeyOptions([header |-> <<"SSH-2.0-", "Dropbear">>, host_keys |-> {1}],
                     [header |-> <<"SSH-2.0-", "OpenSSH">>, host_keys |-> ks]) :
        ks \in KeySets \ {{}, {1}} }

\* A section of the file: its two host-key options and one other option,
\* each <<>> (not set) or <<value>>.
NewSection == [pre |-> <<>>, post |-> <<>>, other |-> <<>>]

\* The entries a section can have before the first call: none, one without
\* host keys, or one that an earlier call wrote.
SectionEntries ==
    { <<>>, << [NewSection EXCEPT !.other = <<"value">>] >> }
    \cup { << [pre |-> o.pre, post |-> o.post, other |-> <<"value">>] >> :
             o \in StoreCalls }

\* EncryptedSystem.config of a session with config_section `section`, as
\* far as the host-key file provides it.
LoadConfig(f, section) ==
    IF f[section] = <<>> THEN [pre |-> <<>>, post |-> <<>>]
    ELSE [pre |-> f[section][1].pre, post |-> f[section][1].post]

\* all(self.config.get(name) == value for name, value in options.items())
AlreadyConfigured(cfg, options) ==
    cfg.pre = options.pre /\ cfg.post = options.post

\* SetHostKeys with the section made anew: its other options are dropped.
SetHostKeys_new_section(parser, section, options) ==
    [parser EXCEPT ![section] =
        << [NewSection EXCEPT !.pre = options.pre, !.post = options.post] >>]

\* has_section/add_section and parser.set for the two options, on the
\* parser that read the file.
SetHostKeys(parser, section, options) ==
    LET old == IF parser[section] = <<>> THEN NewSection ELSE parser[section][1]
    IN  [parser EXCEPT ![section] =
            << [old EXCEPT !.pre = options.pre, !.post = options.post] >>]

\* The sessions before their first call: each has loaded its configuration.
StoreStart ==
    /\ known_hosts \in [FileSections -> SectionEntries]
    /\ known_hosts[0] = << [NewSection EXCEPT !.other = <<"value">>] >>
    /\ known_hosts0 = known_hosts
    /\ writers = [w \in Writers |->
                    [config |-> LoadConfig(known_hosts, w), options |-> <<>>,
                     repeat |-> FALSE, wrote |-> FALSE, written |-> <<>>,
                     pc |-> "idle", parser |-> <<>>]]

\* A whole store_host_keys call of session w, no other session running.
\* `repeat`: the call has the fingerprints of the session's previous call;
\* `wrote`: the call wrote the file.
store_host_keys_call(w) ==
    /\ \A v \in Writers : writers[v].pc = "idle"
    /\ \E options \in StoreCalls :
         LET skip == AlreadyConfigured(writers[w].config, options)
         IN  /\ writers' = [writers EXCEPT
                    ![w].options = <<options>>,
                    ![w].repeat = (writers[w].options = <<options>>),
                    ![w].wrote = ~skip,
                    ![w].written = IF skip THEN @ ELSE <<options>>]
             /\ known_hosts' = IF skip THEN known_hosts
                               ELSE SetHostKeys(known_hosts, w, options)
    /\ UNCHANGED << known_hosts0, worker_pool, unlock_session >>

\* A later session for section w: the configuration is loaded again.
load_config(w) ==
    /\ \A v \in Writers : writers[v].pc = "idle"
    /\ writers[w].config # LoadConfig(known_hosts, w)
    /\ writers' = [writers EXCEPT ![w].config = LoadConfig(known_hosts, w),
                                  ![w].wrote = FALSE]
    /\ UNCHANGED << known_hosts, known_hosts0, worker_pool, unlock_session >>

\* The first half of a store_host_keys call of session w, up to
\* parser.read(filename).
store_read(w) ==
    /\ writers[w].pc = "idle"
    /\ \E options \in StoreCalls :
         IF AlreadyConfigured(writers[w].config, options)
         THEN writers' = [writers EXCEPT ![w].options = <<options>>]
         ELSE writers' = [writers EXCEPT ![w].options = <<options>>,
                                         ![w].parser = <<known_hosts>>,
                                         ![w].pc = "write"]
    /\ UNCHANGED << known_hosts, known_hosts0, worker_pool, unlock_session >>

\* The second half: the options are set on the parser, which is written to
\* the file.
store_write(w) ==
    /\ writers[w].pc = "write"
    /\ known_hosts' =
           SetHostKeys(writers[w].parser[1], w, writers[w].options[1])
    /\ writers' = [writers EXCEPT ![w].written = writers[w].options,
                                  ![w].parser = <<>>,
                                  ![w].pc = "idle"]
    /\ UNCHANGED << known_hosts0, worker_pool, unlock_session >>

\* -------------------------------------------------------- wait_for_post_boot

\* check_keys and check_headers, computed once at the start of the call.
check_keys(pre_server) == pre_server.host_keys # {}
check_headers == same_port

\* What wait_for_post_boot logs it is waiting on.
PostBootMethod(pre_server) ==
    IF check_keys(pre_server) THEN "host keys"
    ELSE IF check_headers THEN "server headers"
    ELSE "port numbers"

\* PostBootChange with the host keys compared for a common key instead of
\* for equality.
PostBootChange_disjoint(pre_server, scanned) ==
    IF /\ check_keys(pre_server)
       /\ scanned.host_keys # {}
       /\ scanned.host_keys \cap pre_server.host_keys = {}
    THEN "host keys"
    ELSE IF /\ check_headers
            /\ pre_server.header # <<>>
            /\ scanned.header # <<>>
            /\ scanned.header # pre_server.header
    THEN "server header"
    ELSE "none"

\* PostBootChange that compares the host keys whether or not there are any.
PostBootChange_unchecked_keys(pre_server, scanned) ==
    IF scanned.host_keys # pre_server.host_keys
    THEN "host keys"
    ELSE IF /\ check_headers
            /\ pre_server.header # <<>>
            /\ scanned.header # <<>>
            /\ scanned.header # pre_server.header
    THEN "server header"
    ELSE "none"

\* PostBootChange that compares the headers whether or not the one of
\* pre_server is empty.
PostBootChange_any_baseline(pre_server, scanned) ==
    IF /\ check_keys(pre_server)
       /\ scanned.host_keys # {}
       /\ scanned.host_keys # pre_server.host_keys
    THEN "host keys"
    ELSE IF /\ check_headers
            /\ scanned.header # <<>>
            /\ scanned.header # pre_server.header
    THEN "server header"
    ELSE "none"

\* The checks of one iteration after a scan of the post-boot server: the
\* change that is logged, or "none".
PostBootChange(pre_server, scanned) ==
    IF /\ check_keys(pre_server)
       /\ scanned.host_keys # {}
       /\ scanned.host_keys # pre_server.host_keys
    THEN "host keys"
    ELSE IF /\ check_headers
            /\ pre_server.header # <<>>
            /\ scanned.header # <<>>
            /\ scanned.header # pre_server.header
    THEN "server header"
    ELSE "none"

\* What one iteration observes: the scanned server when the host keys or
\* the headers are checked, otherwise the result of
\* test_ssh_connection(post_boot, post_context).
PostBootProbes(scans) ==
    IF scans
    THEN { [scan |-> <<scanned>>, reachable |-> FALSE] : scanned \in ServerDetails }
    ELSE { [scan |-> <<>>, reachable |-> r] : r \in BOOLEAN }

\* The change one iteration logs before it breaks out of the loop, or "none".
PostBootDetected(pre_server, probe) ==
    IF probe.scan # <<>> THEN PostBootChange(pre_server, probe.scan[1])
    ELSE IF probe.reachable THEN "port number"
    ELSE "none"

\* How the iteration ends: "return" (break), "timeout" (BootTimeoutError) or
\* "retry" (sleep and probe again).
PostBootOutcome(change, now) ==
    IF change # "none" THEN "return"
    ELSE IF now >= BootTimeout THEN "timeout"
    ELSE "retry"

\* One iteration of the loop of wait_for_post_boot.
wait_for_post_boot ==
    /\ pc = "wait_for_post_boot"
    /\ Running
    /\ LET pre_server == server[1]
           scans == check_headers \/ check_keys(pre_server)
       IN  \E probe \in PostBootProbes(scans), d \in Durations :
             LET change == PostBootDetected(pre_server, probe)
                 now == elapsed_time(elapsed, d)
                 outcome == PostBootOutcome(change, now)
             IN  /\ method' = PostBootMethod(pre_server)
                 /\ post_server' = probe.scan
                 /\ detected' = change
                 /\ hostkeys_file' =
                        IF change = "host keys"
                        THEN store_host_keys(hostkeys_file, pre_server, probe.scan[1])
                        ELSE hostkeys_file
                 /\ pc' = IF outcome = "return" THEN "unlocked" ELSE pc
                 /\ error' = IF outcome = "timeout"
                             THEN "BootTimeoutError" ELSE "none"
                 /\ probe_time' = IF outcome = "return" THEN 0 ELSE d
                 /\ elapsed' = method_timer(elapsed, d, outcome)
    /\ executed' = <<>>
    /\ pre_host' = <<>>
    /\ steps' = Entered("wait_for_post_boot")
    /\ baseline' = server
    /\ UNCHANGED << session, password, named_paths, server, rule, consent,
                    connected >>
    /\ UNCHANGED << shared_file, worker_pool >>

\* ------------------------------------------------------------- watch_system

\* WatchDetects that looks for any host keys, known or not.
WatchDetects_any_keys(known, srv) == srv.host_keys # {}

\* `known_keys & server.host_keys`: the scan shows a known pre-boot host key.
WatchDetects(known, srv) == known \cap srv.host_keys # {}

\* known_keys read again from the host-key file in every iteration.
WatchKnownKeys_read_again == get_known_host_keys(hostkeys_file.pre)

\* The local known_keys of watch_system, assigned before the loop from the
\* configuration the session has loaded.
WatchKnownKeys == known_keys

\* One iteration of the loop of watch_system up to the call of
\* unlock_system(server), which skips wait_for_pre_boot.
watch_system ==
    /\ pc = "watch_system"
    /\ Running
    /\ \E srv \in ServerDetails :
         /\ server' = <<srv>>
         /\ pc' = IF WatchDetects(WatchKnownKeys, srv)
                  THEN "check_ssh_connection" ELSE "watch_sleep"
    /\ steps' = <<>>
    /\ connected' = <<>>
    /\ baseline' = <<>>
    /\ post_server' = <<>>
    /\ rule' = "none"
    /\ consent' = FALSE
    /\ method' = "none"
    /\ detected' = "none"
    /\ executed' = <<>>
    /\ UNCHANGED << session, hostkeys_file, password, error, named_paths,
                    elapsed, probe_time, pre_host >>
    /\ UNCHANGED << shared_file, worker_pool >>

\* The end of an iteration of watch_system, after unlock_system returned
\* or was not called: time.sleep(watch_interval) and the next iteration.
watch_sleep ==
    /\ pc \in {"unlocked", "watch_sleep"}
    /\ mode = "watch"
    /\ Running
    /\ pc' = "watch_system"
    /\ UNCHANGED << session, hostkeys_file, password, error, named_paths,
                    server, post_server, rule, consent, elapsed, probe_time,
                    method, detected, pre_host, executed, steps, connected,
                    baseline >>
    /\ UNCHANGED << shared_file, worker_pool >>

\* -------------------------------------------------------- watch_all_systems

\* loader.section_names
Sections == 1..NumSections

\* A worker process of the pool runs watch_worker(name), that is
\* watch_system of a session of its own.  Its state here is where that
\* session is: "watching" (scanning or sleeping in the loop of
\* watch_system), "unlocking" (in unlock_system), "blocked" (in a probe or
\* command that never returns), "raised" (unlock_system raised and nothing
\* in watch_system or watch_worker caught it), or "terminated" (the process
\* was ended by pool.terminate()).
Alive(n) == pool[n] \in {"watching", "unlocking", "blocked"}

\* pool = multiprocessing.Pool(len(section_names)) and
\* pool.map(watch_worker, section_names): one process and one task per
\* section.  Pool.map of Python 2.7, the interpreter setup.py names, raises
\* in the parent at the first task that fails; that of later interpreters
\* only once every task has ended.
PoolStart ==
    /\ pool = [n \in Sections |-> "watching"]
    /\ parent = "pool.map"
    /\ fail_fast \in BOOLEAN

\* watch_system of worker n sees a known host key and calls unlock_system.
worker_detects(n) ==
    /\ pool[n] = "watching"
    /\ pool' = [pool EXCEPT ![n] = "unlocking"]
    /\ UNCHANGED << parent, fail_fast, shared_file, unlock_session >>

\* unlock_system of worker n returns; the loop of watch_system goes on.
worker_unlocked(n) ==
    /\ pool[n] = "unlocking"
    /\ pool' = [pool EXCEPT ![n] = "watching"]
    /\ UNCHANGED << parent, fail_fast, shared_file, unlock_session >>

\* unlock_system of worker n raises: watch_system and watch_worker end with
\* the exception, which the pool reports to the parent.
worker_raises(n) ==
    /\ pool[n] = "unlocking"
    /\ pool' = [pool EXCEPT ![n] = "raised"]
    /\ UNCHANGED << parent, fail_fast, shared_file, unlock_session >>

\* A probe or a remote command of worker n never returns.
worker_blocks(n) ==
    /\ pool[n] \in {"watching", "unlocking"}
    /\ pool' = [pool EXCEPT ![n] = "blocked"]
    /\ UNCHANGED << parent, fail_fast, shared_file, unlock_session >>

\* pool.map raises in watch_all_systems, whose `finally` calls
\* pool.terminate(): every worker process that is alive is ended.
pool_map_raises ==
    /\ parent = "pool.map"
    /\ \E n \in Sections : pool[n] = "raised"
    /\ fail_fast \/ \A n \in Sections : pool[n] = "raised"
    /\ parent' = "raised"
    /\ pool' = [n \in Sections |-> IF Alive(n) THEN "terminated" ELSE pool[n]]
    /\ UNCHANGED << fail_fast, shared_file, unlock_session >>

\* --------------------------------------------------------------------- main

\* The two commands of the package whose main() wraps a session.
Commands == {"unlock-remote-system", "reboot-remote-system"}

\* What the positional arguments and options of a command line can be:
\* the name of a configuration section, a connection profile expression
\* (unlock-remote-system) or an SSH alias (reboot-remote-system), or
\* something the parsing of the arguments raises on.
Arguments(cmd) ==
    IF cmd = "unlock-remote-system"
    THEN {"section", "expression", "unparsable expression",
          "unhandled option", "no arguments"}
    ELSE {"section", "alias", "too many arguments", "no arguments"}

\* ConnectionProfile.expression: the setter raises ValueError when
\* EXPRESSION_PATTERN does not match the value.
ExpressionRaises(p) == p = "unparsable"

\* The first `try` of main(): "usage" when the usage message is printed,
\* "Exception" when the `except Exception` clause is entered, else "parsed".
ParseArguments(args, p) ==
    CASE args = "no arguments" -> "usage"
      [] args \in {"unhandled option", "too many arguments"} -> "Exception"
      [] args \in {"expression", "unparsable expression"} ->
             IF ExpressionRaises(p) THEN "Exception" ELSE "parsed"
      [] OTHER -> "parsed"

\* The subclasses of EncryptedSystemError.
EncryptedSystemErrors ==
    {"UnlockAbortedError", "SystemUnreachableError", "BootTimeoutError",
     "UnsupportedSystemError"}

\* The second `try` of main() that treats every exception alike.
ExitCode_always_unexpected(exc) == IF exc = "none" THEN 0 ELSE 3

\* The second `try` of main(): the status the process exits with when the
\* operation raised exc ("none" when it returned).
ExitCode(exc) ==
    CASE exc = "none" -> 0
      [] exc \in EncryptedSystemErrors -> 2
      [] OTHER -> 3

\* main() is called with a command line.
Started(cmd) ==
    /\ command = cmd
    /\ main_pc = "parse_arguments"
    /\ arguments \in Arguments(cmd)
    /\ profile \in {"parsed", "unparsable"}
    /\ (arguments = "unparsable expression" => profile = "unparsable")
    /\ (profile = "unparsable" =>
            arguments \in {"unparsable expression", "section"})
    /\ (config_section <=> arguments = "section")
    /\ control_directory = "none"
    /\ exit_code = <<>>
    /\ reboot = NoReboot

\* main() up to the end of its first `try`.
parse_arguments ==
    /\ main_pc = "parse_arguments"
    /\ LET parsed == ParseArguments(arguments, profile)
       IN  /\ main_pc' = CASE parsed # "parsed" -> "exit"
                           [] command = "unlock-remote-system" -> "with"
                           [] OTHER -> "reboot_remote_system"
           /\ exit_code' = CASE parsed = "usage" -> <<0>>
                             [] parsed = "Exception" -> <<1>>
                             [] OTHER -> <<>>
           /\ reboot' = IF parsed = "parsed" /\ command = "reboot-remote-system"
                        THEN [reboot EXCEPT !.pc = "get_post_context"]
                        ELSE reboot
    /\ UNCHANGED << command, arguments, profile, control_directory >>
    /\ UNCHANGED << secret, named_pipe, manager, delivery, upgrade, context >>
    /\ UNCHANGED << mode, interactive, same_port, config_section, config,
                    hostkeys_file, password, pc, error, named_paths, server,
                    post_server, rule, consent, elapsed, probe_time, method,
                    detected, pre_host, executed, steps, connected, baseline >>
    /\ UNCHANGED << shared_file, worker_pool >>

\* ------------------------------------------------------- __enter__, __exit__

\* __exit__ that keeps the directory when the body raised.
ExitRemoves_on_success(exc) == exc = "none"

\* __exit__ calls shutil.rmtree(self.control_directory) whatever exc_type is.
ExitRemoves(exc) == TRUE

\* `with EncryptedSystem(**options) as program`: the constructor, then
\* __enter__. A required property that raises ends the constructor: the
\* program may read pre_boot there or when it first connects.
enter ==
    /\ main_pc = "with"
    /\ \E in_constructor \in BOOLEAN :
         IF ExpressionRaises(profile) /\ in_constructor
         THEN /\ main_pc' = "exit"
              /\ exit_code' = <<ExitCode("ValueError")>>
              /\ error' = "ValueError"
              /\ UNCHANGED control_directory
         ELSE /\ main_pc' = "body"
              /\ control_directory' = "exists"
              /\ UNCHANGED << exit_code, error >>
    \* needs_unlock, old_uptime and what execute raised are not read again.
    /\ reboot' = IF command = "reboot-remote-system"
                 THEN [NoReboot EXCEPT !.pc = "unlock_system", !.issued = TRUE]
                 ELSE reboot
    /\ UNCHANGED << command, arguments, profile >>
    /\ UNCHANGED << secret, named_pipe, manager, delivery, upgrade, context >>
    /\ UNCHANGED << mode, interactive, same_port, config_section, config,
                    hostkeys_file, password, pc, named_paths, server,
                    post_server, rule, consent, elapsed, probe_time, method,
                    detected, pre_host, executed, steps, connected, baseline >>
    /\ UNCHANGED << shared_file, worker_pool >>

\* The body of the `with` statement has returned or has raised: __exit__,
\* then the `except` clauses of main().
exit ==
    /\ main_pc = "body"
    /\ error # "none" \/ pc = "unlocked"
    /\ control_directory' =
           IF ExitRemoves(error) THEN "removed" ELSE control_directory
    /\ main_pc' = "exit"
    /\ exit_code' = <<ExitCode(error)>>
    /\ reboot' = IF command = "reboot-remote-system"
                 THEN [reboot EXCEPT !.pc = "done", !.error = error]
                 ELSE reboot
    /\ UNCHANGED << command, arguments, profile >>
    /\ UNCHANGED << secret, named_pipe, manager, delivery, upgrade, context >>
    /\ UNCHANGED << mode, interactive, same_port, config_section, config,
                    hostkeys_file, password, pc, error, named_paths, server,
                    post_server, rule, consent, elapsed, probe_time, method,
                    detected, pre_host, executed, steps, connected, baseline >>
    /\ UNCHANGED << shared_file, worker_pool >>

\* ------------------------------------------------------ reboot_remote_system

\* What /proc/uptime can report.
Uptimes == 0 .. MaxUptime

\* What the steps of reboot_remote_system leave as it is.
reboot_frame ==
    << command, arguments, profile, control_directory, secret, named_pipe,
       manager, delivery, upgrade, context,
       mode, interactive,
       same_port, config_section, config, hostkeys_file, password, pc, error,
       named_paths, server, post_server, rule, consent, elapsed, probe_time,
       method, detected, pre_host, executed, steps, connected, baseline >>

\* reboot_remote_system that checks for a configuration section only.
Refuse_never(needs_unlock, have_config) == FALSE

\* reboot_remote_system refuses to reboot a system it cannot unlock.
Refuse(needs_unlock, have_config) == needs_unlock /\ ~have_config

\* main() calls get_post_context(arguments[0]); reboot_remote_system up to
\* get_uptime(context).
reboot_prepare ==
    /\ main_pc = "reboot_remote_system"
    /\ reboot.pc = "get_post_context"
    /\ reboot.error = "none"
    /\ \E needs_unlock \in BOOLEAN, uptime \in Uptimes :
         reboot' =
           CASE config_section /\ ExpressionRaises(profile) ->
                    [reboot EXCEPT !.error = "ValueError"]
             [] Refuse(needs_unlock, config_section) ->
                    [reboot EXCEPT !.needs_unlock = needs_unlock,
                                   !.error = "ValueError"]
             [] OTHER ->
                    [reboot EXCEPT !.needs_unlock = needs_unlock,
                                   !.old_uptime = uptime,
                                   !.pc = "reboot"]
    /\ UNCHANGED << main_pc, exit_code >>
    /\ UNCHANGED reboot_frame
    /\ UNCHANGED << shared_file, worker_pool >>

\* reboot_remote_system that lets RemoteConnectFailed end the call.
RebootRaises_connect_failed(failed) == failed

\* The `try` around context.execute('reboot', ...) catches
\* RemoteConnectFailed.
RebootRaises(failed) == FALSE

\* context.execute('reboot', shell=False, silent=True, sudo=True)
reboot_command ==
    /\ main_pc = "reboot_remote_system"
    /\ reboot.pc = "reboot"
    /\ reboot.error = "none"
    /\ \E failed \in BOOLEAN :
         IF RebootRaises(failed)
         THEN /\ reboot' = [reboot EXCEPT !.issued = TRUE, !.dropped = failed,
                                          !.error = "RemoteConnectFailed"]
              /\ UNCHANGED main_pc
         ELSE /\ reboot' = [reboot EXCEPT
                              !.issued = TRUE,
                              !.dropped = failed,
                              !.pc = IF config_section THEN "with"
                                     ELSE "get_uptime"]
              /\ main_pc' = IF config_section THEN "with" ELSE main_pc
    /\ UNCHANGED exit_code
    /\ UNCHANGED reboot_frame
    /\ UNCHANGED << shared_file, worker_pool >>

\* One iteration of the loop that waits for a lower uptime: get_uptime
\* returns new_uptime or raises RemoteConnectFailed.
reboot_wait ==
    /\ main_pc = "reboot_remote_system"
    /\ reboot.pc = "get_uptime"
    /\ \E failed \in BOOLEAN, new_uptime \in Uptimes :
         reboot' = [reboot EXCEPT
                      !.pc = IF ~failed /\ reboot.old_uptime > new_uptime
                             THEN "done" ELSE "get_uptime"]
    /\ UNCHANGED << main_pc, exit_code >>
    /\ UNCHANGED reboot_frame
    /\ UNCHANGED << shared_file, worker_pool >>

\* reboot_remote_system has returned or has raised outside a session: the
\* `except` clauses of main().
reboot_exit ==
    /\ main_pc = "reboot_remote_system"
    /\ reboot.error # "none" \/ reboot.pc = "done"
    /\ main_pc' = "exit"
    /\ exit_code' = <<ExitCode(reboot.error)>>
    /\ UNCHANGED reboot
    /\ UNCHANGED reboot_frame
    /\ UNCHANGED << shared_file, worker_pool >>

\* ------------------------------------- offer_password, command by command

\* What the steps of offer_password leave as it is.
delivery_frame ==
    << mode, interactive, same_port, config_section, config, program,
       secret, named_pipe, manager, upgrade, context, hostkeys_file,
       named_paths,
       server, post_server, rule, consent, elapsed, probe_time, method,
       detected, pre_host, executed, steps, connected, baseline >>

\* The call returns and unlock_system goes on to wait_for_post_boot.
DeliveryReturns(ran) ==
    /\ delivery' = [delivery EXCEPT !.pc = "returned",
                                    !.log = delivery.log \o ran]
    /\ pc' = "wait_for_post_boot"
    /\ UNCHANGED error

\* The call raises and the exception leaves offer_password.
DeliveryRaises(ran, exception) ==
    /\ delivery' = [delivery EXCEPT !.pc = "raised",
                                    !.log = delivery.log \o ran]
    /\ error' = exception
    /\ UNCHANGED pc

\* The exception that a command raises when its exit status is checked.
FailureOf(ended) ==
    IF ended = "connect failed" THEN "RemoteConnectFailed"
                                ELSE "RemoteCommandFailed"

\* find_process_id(program): the listing is read for the program looked for.
FindProcessId ==
    /\ mode = "find_process_id"
    /\ delivery.pc = "find_process_id"
    /\ delivery' =
         [delivery EXCEPT
            !.pc = "returned",
            !.found = << [delivery.found[1] EXCEPT
                            !.pid = find_process_id(delivery.found[1].listing,
                                                    delivery.found[1].program)] >>]
    /\ UNCHANGED << pc, error, password >>
    /\ UNCHANGED delivery_frame
    /\ UNCHANGED << shared_file, worker_pool >>

\* offer_password up to its first helper: the mechanism is chosen from the
\* password and from what exists in the pre-boot environment.
choose_mechanism ==
    /\ mode = "deliver"
    /\ Running
    /\ delivery.pc = "offer_password"
    /\ \E pw \in BOOLEAN, host \in PreHosts :
         /\ password' = <<pw>>
         /\ IF pw /\ host.named_pipe
            THEN /\ delivery' = [delivery EXCEPT
                                   !.pc = "returned",
                                   !.mechanism = "named pipe",
                                   !.log = <<WriteToPipe>>]
                 /\ pc' = "wait_for_post_boot"
                 /\ UNCHANGED error
            ELSE IF pw /\ host.cryptroot_config
            THEN /\ delivery' = [delivery EXCEPT
                                   !.pc = "kill_interactive_prompt",
                                   !.mechanism = "key script"]
                 /\ UNCHANGED << pc, error >>
            ELSE IF host.cryptroot_program
            THEN /\ delivery' = [delivery EXCEPT
                                   !.pc = "kill_interactive_prompt",
                                   !.mechanism = "interactive prompt"]
                 /\ UNCHANGED << pc, error >>
            ELSE /\ delivery' = [delivery EXCEPT !.pc = "raised"]
                 /\ error' = "UnsupportedSystemError"
                 /\ UNCHANGED pc
    /\ UNCHANGED delivery_frame
    /\ UNCHANGED << shared_file, worker_pool >>

\* kill_interactive_prompt: `ps` is run with its exit status checked, the
\* `kill` without.
kill_interactive_prompt ==
    /\ mode = "deliver"
    /\ Running
    /\ delivery.pc = "kill_interactive_prompt"
    /\ \E listed \in CommandOutcomes, listing \in Listings,
          killed \in CommandOutcomes :
         LET pid == find_process_id(listing, CryptrootProgram)
         IN  /\ (listed # "succeeded" => listing = <<>>)
             /\ (pid = <<>> => killed = "succeeded")
             /\ IF listed # "succeeded"
                THEN DeliveryRaises(<<Ps(listed)>>, FailureOf(listed))
                ELSE /\ delivery' =
                          [delivery EXCEPT
                             !.pc = IF delivery.mechanism = "key script"
                                    THEN "create_key_script"
                                    ELSE "run_cryptroot_program",
                             !.log = delivery.log \o <<Ps(listed)>>
                                     \o (IF pid = <<>> THEN <<>>
                                         ELSE <<Kill(pid[1], killed)>>)]
                     /\ UNCHANGED << pc, error >>
    /\ UNCHANGED password
    /\ UNCHANGED delivery_frame
    /\ UNCHANGED << shared_file, worker_pool >>

\* KeyScriptCommands that rewrites the configuration before the key script
\* is there.
KeyScriptCommands_config_first ==
    << ReadFile(CryptrootConfig), WriteFile(CryptrootConfig),
       WriteFile(KeyScript), Chmod(KeyScript) >>

\* The commands of create_key_script, in the order of its statements.
KeyScriptCommands ==
    << WriteFile(KeyScript), Chmod(KeyScript),
       ReadFile(CryptrootConfig), WriteFile(CryptrootConfig) >>

\* create_key_script: the key script is written and made executable, then
\* every line of the cryptroot configuration is given the keyscript option.
create_key_script ==
    /\ mode = "deliver"
    /\ Running
    /\ delivery.pc = "create_key_script"
    /\ delivery' =
         [delivery EXCEPT
            !.pc = "run_cryptroot_program",
            !.key_script = "executable",
            !.cryptroot_config = WithKeyScript(delivery.cryptroot_config),
            !.log = delivery.log \o KeyScriptCommands]
    /\ UNCHANGED << pc, error, password >>
    /\ UNCHANGED delivery_frame
    /\ UNCHANGED << shared_file, worker_pool >>

\* run_cryptroot_program(interactive): on a terminal only for the
\* interactive prompt.
run_cryptroot_program ==
    /\ mode = "deliver"
    /\ Running
    /\ delivery.pc = "run_cryptroot_program"
    /\ delivery' =
         [delivery EXCEPT
            !.pc = "kill_emergency_shell",
            !.log = Append(delivery.log,
                           RunCryptroot(delivery.mechanism = "interactive prompt"))]
    /\ UNCHANGED << pc, error, password >>
    /\ UNCHANGED delivery_frame
    /\ UNCHANGED << shared_file, worker_pool >>

\* kill_emergency_shell: `ps` is run without its exit status checked, the
\* `kill` with; of the exceptions of the `kill` only RemoteConnectFailed is
\* raised again.
kill_emergency_shell ==
    /\ mode = "deliver"
    /\ Running
    /\ delivery.pc = "kill_emergency_shell"
    /\ \E listed \in CommandOutcomes, listing \in Listings,
          killed \in CommandOutcomes :
         LET pid == find_process_id(listing, EmergencyShell)
             ran == <<Ps(listed)>> \o (IF pid = <<>> THEN <<>>
                                       ELSE <<Kill(pid[1], killed)>>)
         IN  /\ (listed # "succeeded" => listing = <<>>)
             /\ (pid = <<>> => killed = "succeeded")
             /\ IF pid # <<>> /\ killed = "connect failed"
                THEN DeliveryRaises(ran, "RemoteConnectFailed")
                ELSE DeliveryReturns(ran)
    /\ UNCHANGED password
    /\ UNCHANGED delivery_frame
    /\ UNCHANGED << shared_file, worker_pool >>

\* ------------------------------------------- KernelPackageManager, cached

\* What the properties of the manager leave as it is.
manager_frame ==
    << mode, interactive, same_port, config_section, config, program,
       secret, named_pipe, delivery, upgrade, context, hostkeys_file, password, pc,
       error, named_paths,
       server, post_server, rule, consent, elapsed, probe_time, method,
       detected, pre_host, executed, steps, connected, baseline >>

\* The first read of the cached property removable_package_groups.
removable_package_groups ==
    /\ manager.pc = "constructed"
    /\ manager' = [manager EXCEPT
                     !.removable_package_groups =
                         << RemovablePackageGroups(manager.installed_packages,
                                                   manager.active_kernel_release,
                                                   manager.preserve_count) >>,
                     !.pc = "removable_package_groups"]
    /\ UNCHANGED manager_frame
    /\ UNCHANGED << known_hosts, known_hosts0, writers, pool, parent, fail_fast >>

\* The first read of the cached property cleanup_command.
cleanup_command ==
    /\ manager.pc = "removable_package_groups"
    /\ manager' = [manager EXCEPT
                     !.cleanup_command =
                         CleanupCommand(manager.apt_options,
                                        manager.removable_package_groups[1]),
                     !.pc = "cleanup_command"]
    /\ UNCHANGED manager_frame
    /\ UNCHANGED << known_hosts, known_hosts0, writers, pool, parent, fail_fast >>

\* ------------------------------------------------------- cleanup_packages

\* What cleanup_packages leaves as it is.
cleanup_frame ==
    << mode, interactive, same_port, config_section, config, program,
       secret, named_pipe, delivery, upgrade, hostkeys_file, password, pc,
       error, named_paths, server, post_server, rule, consent, elapsed,
       probe_time, method, detected, pre_host, executed, steps, connected,
       baseline >>

\* The command that removes the signal files.
RemoveSignalFiles ==
    << <<"rm">>, <<"--force">>, <<"/var/run/reboot-required">>,
       <<"/var/run/reboot-required.pkgs">> >>

\* The command that brings 01autoremove-kernels up to date.
AutoRemoval(release) ==
    << <<"/etc/kernel/postinst.d/apt-auto-removal">>, <<"linux", release>> >>

\* What `apt-get remove` leaves installed: nothing is removed in a dry
\* run; otherwise the packages named are removed, and apt-get may install a
\* package in their place.
AptRemoves(installed, removable, simulated) ==
    LET named == UNION {removable[i] : i \in DOMAIN removable}
    IN  IF simulated THEN {installed}
        ELSE {installed \ named}
             \cup {(installed \ named) \cup {package} :
                      package \in ImagePackages \ installed}

\* The end of cleanup_packages, cached_removal_test: the value returned, or
\* the IndexError of running_newest_kernel on a system without kernels.
CleanupReturns(m, system) ==
    LET listed == Cached(m, system, "packages")
        checked == Cached(listed, system, "reboot_required")
    IN  IF NoGroups(listed) THEN [listed EXCEPT !.pc = "IndexError"]
        ELSE IF ~running_newest_kernel(listed)
        THEN [listed EXCEPT !.pc = "returned", !.result = <<TRUE>>]
        ELSE [checked EXCEPT !.pc = "returned",
                             !.result = <<checked.reboot_required>>]

\* The sanity check of cleanup_packages: it is made only when there is
\* something to remove.
MetaPackagesRefuse(m, command_line) ==
    command_line # <<>> /\ m.image_meta_packages > 1 /\ ~m.force

\* The test of cleanup_packages before the signal files are removed,
\* without the test of reboot_required_before.
SignalFilesRemovable_reboot_pending(m, reboot_required_before, installed_before) ==
    /\ running_newest_kernel(m)
    /\ m.installed_packages \subseteq installed_before
    /\ ~dry_run(m.apt_options)

\* The tests of cleanup_packages before the signal files are removed.
SignalFilesRemovable(m, reboot_required_before, installed_before) ==
    /\ running_newest_kernel(m)
    /\ ~reboot_required_before
    /\ m.installed_packages \subseteq installed_before
    /\ ~dry_run(m.apt_options)

\* KernelPackageManager.cleanup_packages
cleanup_packages ==
    /\ manager.pc = "cleanup_packages"
    /\ LET listed == Cached(manager, context, "packages")
           removable == RemovablePackageGroups(listed.installed_packages,
                                               listed.active_kernel_release,
                                               listed.preserve_count)
           command_line == CleanupCommand(listed.apt_options, removable)
           rendered == [listed EXCEPT
                          !.summary = << [installed_packages |-> listed.installed_packages,
                                          active_kernel_release |-> listed.active_kernel_release] >>,
                          !.removable_package_groups = <<removable>>,
                          !.cleanup_command = command_line]
           before == Cached(rendered, context, "reboot_required")
       IN  IF MetaPackagesRefuse(rendered, command_line)
           THEN /\ manager' = [rendered EXCEPT !.pc = "CleanupError"]
                /\ UNCHANGED context
           ELSE IF command_line = <<>>
           THEN /\ manager' = CleanupReturns(rendered, context)
                /\ UNCHANGED context
           ELSE \E succeeded \in BOOLEAN, script \in BOOLEAN, signalled \in BOOLEAN,
                   installed_after \in AptRemoves(context.installed_packages,
                                                  removable,
                                                  dry_run(before.apt_options)) :
                  IF ~succeeded
                  THEN /\ ~script /\ ~signalled
                       /\ installed_after = context.installed_packages
                       /\ manager' = [before EXCEPT !.pc = "ExternalCommandFailed"]
                       /\ context' = [context EXCEPT !.commands = Append(@, command_line)]
                  ELSE LET removed ==
                               [context EXCEPT
                                  !.installed_packages = installed_after,
                                  !.reboot_required =
                                      @ \/ (signalled /\ ~dry_run(before.apt_options)),
                                  !.commands =
                                      Append(@, command_line)
                                      \o (IF script /\ ~dry_run(before.apt_options)
                                          THEN <<AutoRemoval(before.active_kernel_release)>>
                                          ELSE <<>>)]
                           cleared == Cached(clear_cached_properties(before),
                                             removed, "packages")
                       IN  IF NoGroups(cleared)
                           THEN /\ manager' = [cleared EXCEPT !.pc = "IndexError"]
                                /\ context' = removed
                           ELSE IF SignalFilesRemovable(cleared, before.reboot_required,
                                                        before.installed_packages)
                           THEN LET avoided ==
                                        [removed EXCEPT
                                           !.reboot_required = FALSE,
                                           !.commands = Append(@, RemoveSignalFiles)]
                                IN  /\ manager' = CleanupReturns(cleared, avoided)
                                    /\ context' = avoided
                           ELSE /\ manager' = CleanupReturns(cleared, removed)
                                /\ context' = removed
    /\ UNCHANGED cleanup_frame
    /\ UNCHANGED << shared_file, worker_pool >>

\* -------------------------------------------------- upgrade_remote_system

\* What the steps of upgrade_remote_system leave as it is.
upgrade_frame ==
    << mode, interactive, same_port, config_section, config, program,
       secret, named_pipe, delivery, hostkeys_file, password, pc, error,
       named_paths, server, post_server, rule, consent, elapsed, probe_time,
       method, detected, pre_host, executed, steps, connected, baseline >>

\* The command lines that upgrade_remote_system runs.
AptGet(words) == << <<"apt-get">> >> \o words
Update == AptGet(<< <<"update">> >>)
DistUpgrade == AptGet(<< <<"dist-upgrade">> >>)
Clean == AptGet(<< <<"clean">> >>)
AutoRemove == AptGet(<< <<"autoremove">>, <<"--purge">> >>)
Reboot == << <<"reboot">> >>

\* The command was run on the system.
Ran(command_line) == [context EXCEPT !.commands = Append(@, command_line)]

\* The command failed: its exception leaves upgrade_remote_system.
UpgradeRaises(exception) ==
    upgrade' = [upgrade EXCEPT !.pc = "raised", !.error = exception]

\* updater.smart_update()
smart_update ==
    /\ mode = "upgrade"
    /\ upgrade.pc = "smart_update"
    /\ context' = Ran(Update)
    /\ \E succeeded \in BOOLEAN :
         IF succeeded THEN upgrade' = [upgrade EXCEPT !.pc = "dist_upgrade"]
                      ELSE UpgradeRaises("ExternalCommandFailed")
    /\ UNCHANGED manager
    /\ UNCHANGED upgrade_frame
    /\ UNCHANGED << shared_file, worker_pool >>

\* apt-get dist-upgrade: it may install a kernel image and it may leave
\* REBOOT_REQUIRED_FILE behind.
dist_upgrade ==
    /\ mode = "upgrade"
    /\ upgrade.pc = "dist_upgrade"
    /\ \E succeeded \in BOOLEAN, signalled \in BOOLEAN,
          installed \in {{}} \cup {{package} : package \in ImagePackages} :
         IF succeeded
         THEN /\ context' = [Ran(DistUpgrade) EXCEPT
                               !.installed_packages = @ \cup installed,
                               !.reboot_required = @ \/ signalled]
              /\ upgrade' = [upgrade EXCEPT !.pc = "clean"]
         ELSE /\ installed = {} /\ ~signalled
              /\ context' = Ran(DistUpgrade)
              /\ UpgradeRaises("ExternalCommandFailed")
    /\ UNCHANGED manager
    /\ UNCHANGED upgrade_frame
    /\ UNCHANGED << shared_file, worker_pool >>

\* apt-get clean
clean ==
    /\ mode = "upgrade"
    /\ upgrade.pc = "clean"
    /\ context' = Ran(Clean)
    /\ \E succeeded \in BOOLEAN :
         IF succeeded THEN upgrade' = [upgrade EXCEPT !.pc = "reboot_required"]
                      ELSE UpgradeRaises("ExternalCommandFailed")
    /\ UNCHANGED manager
    /\ UNCHANGED upgrade_frame
    /\ UNCHANGED << shared_file, worker_pool >>

\* The KernelPackageManager is created and asked whether to reboot:
\* reboot_required first, running_newest_kernel only when it is False.
reboot_required ==
    /\ mode = "upgrade"
    /\ upgrade.pc = "reboot_required"
    /\ LET checked == Cached(UpgradeManager, context, "reboot_required")
           listed == Cached(checked, context, "packages")
       IN  IF checked.reboot_required
           THEN /\ manager' = checked
                /\ upgrade' = [upgrade EXCEPT !.pc = "reboot_helper"]
           ELSE IF NoGroups(listed)
           THEN /\ manager' = listed
                /\ UpgradeRaises("IndexError")
           ELSE IF ~running_newest_kernel(listed)
           THEN /\ manager' = listed
                /\ upgrade' = [upgrade EXCEPT !.pc = "reboot_helper"]
           ELSE /\ manager' = [listed EXCEPT !.pc = "cleanup_packages"]
                /\ upgrade' = [upgrade EXCEPT !.pc = "cleanup_packages"]
    /\ UNCHANGED context
    /\ UNCHANGED upgrade_frame
    /\ UNCHANGED << shared_file, worker_pool >>

\* The manager after a reboot_helper that keeps the cached properties.
Rebooted_cache_kept(m) == m

\* The manager after reboot_helper: manager.clear_cached_properties()
Rebooted(m) == clear_cached_properties(m)

\* reboot_helper: reboot_remote_system raises, or the system is up again
\* on one of its installed kernels and without REBOOT_REQUIRED_FILE.
reboot_helper ==
    /\ mode = "upgrade"
    /\ upgrade.pc = "reboot_helper"
    /\ \E succeeded \in BOOLEAN,
          release \in {context.kernel_release}
                      \cup {package.version_in_name :
                               package \in context.installed_packages} :
         IF succeeded
         THEN /\ context' = [Ran(Reboot) EXCEPT !.kernel_release = release,
                                                !.reboot_required = FALSE]
              /\ manager' = [Rebooted(manager) EXCEPT !.pc = "cleanup_packages"]
              /\ upgrade' = [upgrade EXCEPT !.pc = "cleanup_packages"]
         ELSE /\ release = context.kernel_release
              /\ context' = Ran(Reboot)
              /\ UpgradeRaises("ExternalCommandFailed")
              /\ UNCHANGED manager
    /\ UNCHANGED upgrade_frame
    /\ UNCHANGED << shared_file, worker_pool >>

\* The end of upgrade_remote_system: a CleanupError of cleanup_packages is
\* logged, any other exception leaves the function; then apt-get
\* autoremove --purge is run.
autoremove ==
    /\ mode = "upgrade"
    /\ upgrade.pc = "cleanup_packages"
    /\ manager.pc # "cleanup_packages"
    /\ IF manager.pc \in {"returned", "CleanupError"}
       THEN /\ context' = Ran(AutoRemove)
            /\ \E succeeded \in BOOLEAN :
                 IF succeeded THEN upgrade' = [upgrade EXCEPT !.pc = "returned"]
                              ELSE UpgradeRaises("ExternalCommandFailed")
       ELSE /\ UpgradeRaises(manager.pc)
            /\ UNCHANGED context
    /\ UNCHANGED manager
    /\ UNCHANGED upgrade_frame
    /\ UNCHANGED << shared_file, worker_pool >>

\* ----------------------------------------------------------- specifications

\* unlock_system() called on a new session.
Next ==
    \/ wait_for_pre_boot
    \/ check_ssh_connection
    \/ offer_password
    \/ wait_for_post_boot

Spec == Init /\ [][Next]_vars

\* watch_system() called on a new session.
WatchNext ==
    \/ watch_system
    \/ check_ssh_connection
    \/ offer_password
    \/ wait_for_post_boot
    \/ watch_sleep

WatchSpec == WatchInit /\ [][WatchNext]_vars

\* Sessions that call store_host_keys one after the other.
StoreInit == Parked /\ StoreStart /\ NoPool

StoreNext ==
    \E w \in Writers : store_host_keys_call(w) \/ load_config(w)

StoreSpec == StoreInit /\ [][StoreNext]_vars

\* Two sessions for different sections that call store_host_keys at the
\* same time, each in a process of its own.
ConcurrentStoreNext ==
    \E w \in Writers : store_read(w) \/ store_write(w)

ConcurrentStoreSpec == StoreInit /\ [][ConcurrentStoreNext]_vars

\* main() calls watch_all_systems(loader).
WatchAllInit ==
    /\ Parked
    /\ known_hosts = EmptyFile
    /\ known_hosts0 = EmptyFile
    /\ writers = <<>>
    /\ PoolStart

WatchAllNext ==
    \/ \E n \in Sections :
          \/ worker_detects(n)
          \/ worker_unlocked(n)
          \/ worker_raises(n)
          \/ worker_blocks(n)
    \/ pool_map_raises

WatchAllSpec == WatchAllInit /\ [][WatchAllNext]_vars

\* unlock_system() when time advances and every probe and remote command
\* returns: the step the call is at is eventually taken.
UnlockLiveSpec == Init /\ [][Next]_vars /\ WF_vars(Next)

\* main() of unlock-remote-system or of reboot-remote-system, from the
\* command line to the exit status.
CommandInit ==
    /\ Constructed("unlock")
    /\ Alone
    /\ \E cmd \in Commands : Started(cmd)

CommandNext ==
    \/ parse_arguments
    \/ enter
    \/ wait_for_pre_boot
    \/ check_ssh_connection
    \/ offer_password
    \/ wait_for_post_boot
    \/ exit
    \/ reboot_prepare
    \/ reboot_command
    \/ reboot_wait
    \/ reboot_exit

CommandSpec == CommandInit /\ [][CommandNext]_vars

\* offer_password() called on a new session that was given a password.
PipeInit ==
    /\ Constructed("offer_password")
    /\ ~interactive
    /\ ~same_port
    /\ ~config_section
    /\ Alone
    /\ InBody

PipeNext == offer_password_with_secret

PipeSpec == PipeInit /\ [][PipeNext]_vars

\* offer_password called on a new session, one remote command at a time.
DeliveryInit ==
    /\ Constructed("deliver")
    /\ ~interactive
    /\ ~same_port
    /\ ~config_section
    /\ Alone
    /\ InBody

DeliveryNext ==
    \/ choose_mechanism
    \/ kill_interactive_prompt
    \/ create_key_script
    \/ run_cryptroot_program
    \/ kill_emergency_shell

DeliverySpec == DeliveryInit /\ [][DeliveryNext]_vars

\* find_process_id called on any listing.
FindInit ==
    /\ Constructed("find_process_id")
    /\ ~interactive
    /\ ~same_port
    /\ ~config_section
    /\ Alone
    /\ InBody

FindNext == FindProcessId

FindSpec == FindInit /\ [][FindNext]_vars

\* debuntu-kernel-manager on a system with some kernel packages installed.
KernelInit ==
    /\ Constructed("cleanup")
    /\ ~interactive
    /\ ~same_port
    /\ ~config_section
    /\ Alone
    /\ NoCommand

KernelNext ==
    \/ removable_package_groups
    \/ cleanup_command

KernelSpec == KernelInit /\ [][KernelNext]_vars

\* cleanup_packages called on a new KernelPackageManager of any system.
CleanupInit ==
    /\ Constructed("cleanup_packages")
    /\ ~interactive
    /\ ~same_port
    /\ ~config_section
    /\ Alone
    /\ NoCommand

CleanupNext == cleanup_packages

CleanupSpec == CleanupInit /\ [][CleanupNext]_vars

\* upgrade_remote_system called on any system.
UpgradeInit ==
    /\ Constructed("upgrade")
    /\ ~interactive
    /\ ~same_port
    /\ ~config_section
    /\ Alone
    /\ NoCommand

UpgradeNext ==
    \/ smart_update
    \/ dist_upgrade
    \/ clean
    \/ reboot_required
    \/ reboot_helper
    \/ cleanup_packages
    \/ autoremove

UpgradeSpec == UpgradeInit /\ [][UpgradeNext]_vars

\* wait_for_post_boot(pre_server) called on a new session with any
\* ServerDetails object.
PostBootInit ==
    /\ Constructed("wait_for_post_boot")
    /\ Alone
    /\ InBody

PostBootNext == wait_for_post_boot

PostBootSpec == PostBootInit /\ [][PostBootNext]_vars

\* ------------------------------------------------------------------ claims

\* The last pre-boot scan returned host keys while pre-boot keys are known.
KeysComparable ==
    /\ server # <<>>
    /\ server[1].host_keys # {}
    /\ known_keys # {}

\* The last pre-boot scan shows one of the known pre-boot host keys.
KnownKeyMatch == KeysComparable /\ server[1].host_keys \cap known_keys # {}

\* The only evidence of the last pre-boot scan is a full-OS (OpenSSH) banner.
OpenSSHOnly ==
    /\ server # <<>>
    /\ ~KeysComparable
    /\ ~match_header(server[1], "dropbear")
    /\ match_header(server[1], "openssh")

\* wait_for_pre_boot returned a fingerprint: the sequence went on.
PreBootReturned == pc # "wait_for_pre_boot"

\* C1: offer_password is reached only when, in the same cycle, the pre-boot
\* endpoint was classified as pre-boot by a known host key or by a Dropbear
\* banner, or an interactive operator confirmed continuing; a
\* non-interactive session never gets there on an OpenSSH banner alone.
C1_SecretOnlyToConfirmedPreBoot ==
    pc = "offer_password" =>
        \/ KnownKeyMatch
        \/ (~KeysComparable /\ match_header(server[1], "dropbear"))
        \/ (interactive /\ consent)

\* C4: with interactive mode disabled, a probe whose only evidence is an
\* OpenSSH banner aborts wait_for_pre_boot with UnlockAbortedError; no
\* fingerprint is returned and the unlock sequence does not continue.
C4_NonInteractiveOpenSSHAborts ==
    (~interactive /\ OpenSSHOnly) =>
        /\ pc = "wait_for_pre_boot"
        /\ error = "UnlockAbortedError"

\* C5: for a pre-boot probe that returned host keys while pre-boot keys are
\* known, the probe confirms pre-boot exactly when the probed keys intersect
\* the known keys; when they do not, the banner is not consulted (the probe
\* is logged as the post-boot environment whatever its banner), no error
\* other than the timeout is raised, and the wait retries until
\* connect_timeout has passed.
C5_KnownKeysDecide ==
    KeysComparable =>
        /\ PreBootReturned <=> KnownKeyMatch
        /\ KnownKeyMatch => rule = "known_keys"
        /\ ~KnownKeyMatch =>
              /\ rule = "post_boot_keys"
              /\ ~consent
              /\ error \in {"none", "SystemUnreachableError"}
              /\ error = "none" =>
                    elapsed - sleep(probe_time, RetryInterval) < ConnectTimeout
              /\ error = "SystemUnreachableError" => elapsed >= ConnectTimeout

\* C5 witness: a probe with unknown host keys and a Dropbear banner, after
\* which the wait is still retrying.
C5_Witness ==
    /\ KeysComparable
    /\ ~KnownKeyMatch
    /\ match_header(server[1], "dropbear")
    /\ pc = "wait_for_pre_boot"
    /\ error = "none"

\* The last post-boot scan and the baseline both carry host keys.
BothHaveKeys ==
    /\ server # <<>>
    /\ post_server # <<>>
    /\ server[1].host_keys # {}
    /\ post_server[1].host_keys # {}

\* C6 as claimed: with host keys on both sides, wait_for_post_boot reports a
\* change of host keys when the two sets are disjoint and reports none when
\* they intersect.
C6_KeyChangeIffDisjoint ==
    BothHaveKeys =>
        LET common == server[1].host_keys \cap post_server[1].host_keys
        IN  /\ common = {} => detected = "host keys"
            /\ common # {} => detected # "host keys"

\* C6 as amended: with host keys on both sides, wait_for_post_boot reports a
\* change of host keys exactly when the two sets differ: always when they
\* are disjoint, never when they are equal.
C6_KeyChangeIffDifferent ==
    BothHaveKeys =>
        /\ detected = "host keys"
              <=> server[1].host_keys # post_server[1].host_keys
        /\ server[1].host_keys \cap post_server[1].host_keys = {}
              => detected = "host keys"

\* C6 witness: the observed keys share a key with the baseline, differ from
\* it, and the change of host keys was reported.
C6_Witness ==
    /\ BothHaveKeys
    /\ server[1].host_keys \cap post_server[1].host_keys # {}
    /\ server[1].host_keys # post_server[1].host_keys
    /\ detected = "host keys"
    /\ pc = "unlocked"

\* C7: when the baseline carries host keys, wait_for_post_boot returns only
\* after a probe with non-empty host keys that differ from the baseline; a
\* different banner alone never ends the wait.
C7_KeysBaselineReturnsOnKeysOnly ==
    (pc = "unlocked" /\ server[1].host_keys # {}) =>
        /\ detected = "host keys"
        /\ post_server # <<>>
        /\ post_server[1].host_keys # {}
        /\ post_server[1].host_keys # server[1].host_keys

\* C8 as claimed: wait_for_pre_boot raises SystemUnreachableError not before
\* connect_timeout and not later than connect_timeout plus the time of one
\* probe.
C8_UnreachableWithinOneProbe ==
    (pc = "wait_for_pre_boot" /\ error = "SystemUnreachableError") =>
        /\ elapsed >= ConnectTimeout
        /\ elapsed <= ConnectTimeout + probe_time

\* C8 as amended: wait_for_pre_boot raises SystemUnreachableError not before
\* connect_timeout and not later than connect_timeout plus retry_interval
\* plus the time of one probe, the time being measured from the start of
\* the wait; it only retries while connect_timeout has not passed.
C8_UnreachableWithinRetryAndProbe ==
    /\ (pc = "wait_for_pre_boot" /\ error = "SystemUnreachableError") =>
          /\ elapsed >= ConnectTimeout
          /\ elapsed <= ConnectTimeout + RetryInterval + probe_time
    /\ (pc = "wait_for_pre_boot" /\ error = "none" /\ server # <<>>) =>
          elapsed - sleep(probe_time, RetryInterval) < ConnectTimeout

\* C8 witness: the error is raised later than connect_timeout plus the time
\* of the last probe.
C8_Witness ==
    /\ pc = "wait_for_pre_boot"
    /\ error = "SystemUnreachableError"
    /\ elapsed > ConnectTimeout + probe_time

\* The change the strategy wait_for_post_boot logged as selected looks for.
SelectedChange ==
    CASE method = "host keys" -> "host keys"
      [] method = "server headers" -> "server header"
      [] method = "port numbers" -> "port number"
      [] OTHER -> "none"

\* C9: BootTimeoutError is raised only once boot_timeout has passed and never
\* on an iteration whose probe showed a transition, and wait_for_post_boot
\* never returns without a transition observed by the selected strategy.
C9_TimeoutOrSelectedTransition ==
    /\ error = "BootTimeoutError" =>
          /\ pc = "wait_for_post_boot"
          /\ elapsed >= BootTimeout
          /\ detected = "none"
    /\ (pc = "wait_for_post_boot" /\ error = "none" /\ method # "none") =>
          elapsed - sleep(probe_time, RetryInterval) < BootTimeout
    /\ pc = "unlocked" =>
          /\ detected # "none"
          /\ detected = SelectedChange

\* The capability probes of offer_password, in the order of their priority.
ProbeRank(op) ==
    CASE op = "have_named_pipe" -> 1
      [] op = "have_cryptroot_config" -> 2
      [] op = "have_cryptroot_program" -> 3
      [] OTHER -> 0

IsProbe(event) == ProbeRank(event.op) > 0

\* The actions of the mechanism that each capability probe gates.
MechanismActions(probe_op) ==
    CASE probe_op = "have_named_pipe" -> {"write_to_named_pipe"}
      [] probe_op = "have_cryptroot_config" ->
            {"kill_interactive_prompt", "create_key_script",
             "run_cryptroot_program(interactive=False)", "kill_emergency_shell"}
      [] probe_op = "have_cryptroot_program" ->
            {"kill_interactive_prompt",
             "run_cryptroot_program(interactive=True)", "kill_emergency_shell"}
      [] OTHER -> {}

\* The last step was offer_password: `executed` is what it ran.
OfferPasswordRan ==
    /\ executed # <<>>
    /\ executed[1].op # "test_ssh_connection"

\* offer_password raised UnsupportedSystemError.
Unsupported == pc = "offer_password" /\ error = "UnsupportedSystemError"

\* C2: offer_password probes in the order named pipe, cryptroot
\* configuration, cryptroot program; once a probe has succeeded nothing is
\* probed any more and only the actions of that probe's mechanism follow;
\* every action taken follows the successful probe of its mechanism, so the
\* actions of at most one mechanism are performed.
C2_ProbeOrderAndOneMechanism ==
    OfferPasswordRan =>
        /\ \A i, j \in DOMAIN executed :
              (i < j /\ IsProbe(executed[i]) /\ IsProbe(executed[j]))
                 => /\ ProbeRank(executed[i].op) < ProbeRank(executed[j].op)
                    /\ ~executed[i].result
        /\ \A i, j \in DOMAIN executed :
              (i < j /\ IsProbe(executed[i]) /\ executed[i].result)
                 => executed[j].op \in MechanismActions(executed[i].op)
        /\ \A j \in DOMAIN executed :
              ~IsProbe(executed[j])
                 => \E i \in 1..(j - 1) :
                       /\ IsProbe(executed[i])
                       /\ executed[i].result
                       /\ executed[j].op \in MechanismActions(executed[i].op)

\* C2 witness: the pipe, the configuration and the program all exist, there
\* is a password, and offer_password has written to the pipe.
C2_Witness ==
    /\ OfferPasswordRan
    /\ password = <<TRUE>>
    /\ pre_host[1] = [named_pipe |-> TRUE, cryptroot_config |-> TRUE,
                      cryptroot_program |-> TRUE]
    /\ pc = "wait_for_post_boot"

\* C3: without a password offer_password neither writes to the named pipe
\* nor creates the key script nor runs the cryptroot program
\* non-interactively, whatever exists on the host; it goes straight to the
\* probe of the cryptroot program, runs it interactively when it exists and
\* raises UnsupportedSystemError when it does not.
C3_NoPasswordOnlyInteractive ==
    (OfferPasswordRan /\ password = <<FALSE>>) =>
        /\ \A i \in DOMAIN executed :
              executed[i].op \notin
                 {"have_named_pipe", "write_to_named_pipe",
                  "have_cryptroot_config", "create_key_script",
                  "run_cryptroot_program(interactive=False)"}
        /\ executed[1] = Probe("have_cryptroot_program",
                               pre_host[1].cryptroot_program)
        /\ pre_host[1].cryptroot_program =>
              /\ \E i \in DOMAIN executed :
                    executed[i].op = "run_cryptroot_program(interactive=True)"
              /\ ~Unsupported
        /\ ~pre_host[1].cryptroot_program => Unsupported

\* C3 witness: no password, the pipe and the configuration both exist, the
\* program does not, and offer_password has raised.
C3_Witness ==
    /\ OfferPasswordRan
    /\ password = <<FALSE>>
    /\ pre_host[1] = [named_pipe |-> TRUE, cryptroot_config |-> TRUE,
                      cryptroot_program |-> FALSE]
    /\ Unsupported

\* C10: offer_password raises UnsupportedSystemError exactly when none of
\* the capability probes it made succeeded; then it has run nothing but
\* probes (no write, no kill, no program), the error names the three paths,
\* and the sequence ends there: wait_for_post_boot is never entered.
C10_UnsupportedIffNoProbeSucceeds ==
    /\ OfferPasswordRan =>
          (Unsupported <=>
              \A i \in DOMAIN executed :
                 IsProbe(executed[i]) => ~executed[i].result)
    /\ error = "UnsupportedSystemError" =>
          /\ pc = "offer_password"
          /\ OfferPasswordRan
          /\ \A i \in DOMAIN executed : IsProbe(executed[i])
          /\ named_paths = {"named_pipe", "cryptroot_config", "cryptroot_program"}
          /\ method = "none"
          /\ post_server = <<>>
    /\ (OfferPasswordRan /\ password = <<TRUE>> /\ Unsupported) =>
          pre_host[1] = [named_pipe |-> FALSE, cryptroot_config |-> FALSE,
                         cryptroot_program |-> FALSE]

\* C10 witness: with a password, all three probes failed and offer_password
\* has raised.
C10_Witness ==
    /\ Unsupported
    /\ password = <<TRUE>>
    /\ Len(executed) = 3

\* The order in which unlock_system calls its steps.
UnlockSteps ==
    << "wait_for_pre_boot", "check_ssh_connection", "offer_password",
       "wait_for_post_boot" >>

IsPrefix(s, t) ==
    /\ Len(s) <= Len(t)
    /\ \A i \in DOMAIN s : s[i] = t[i]

\* C11: the steps of one unlock_system call are entered in the order
\* wait_for_pre_boot, check_ssh_connection, offer_password,
\* wait_for_post_boot, each at most once, and the call is in one step at a
\* time: the last one entered, or the next one once that has returned.  A
\* failed check_ssh_connection raises SystemUnreachableError and
\* offer_password is not entered.  The baseline of wait_for_post_boot is the
\* fingerprint that wait_for_pre_boot returned.
C11_StepsInOrder ==
    /\ IsPrefix(steps, UnlockSteps)
    /\ pc = "unlocked" => steps = UnlockSteps
    /\ pc # "unlocked" =>
          \E i \in DOMAIN UnlockSteps :
             /\ pc = UnlockSteps[i]
             /\ Len(steps) \in {i - 1, i}
             /\ error # "none" => Len(steps) = i
    /\ connected = <<FALSE>> =>
          /\ error = "SystemUnreachableError"
          /\ steps = << "wait_for_pre_boot", "check_ssh_connection" >>
    /\ Len(steps) >= 3 => connected = <<TRUE>>
    /\ baseline # <<>> =>
          /\ baseline = server
          /\ rule \in {"known_keys", "dropbear", "openssh"}
          /\ Len(steps) = 4

\* C11 witness: all four steps were entered and unlock_system has returned.
C11_Witness ==
    /\ pc = "unlocked"
    /\ Len(steps) = 4
    /\ baseline = server
    /\ connected = <<TRUE>>

\* unlock_system has ended: it returned, or one of its steps raised.
Terminated == pc = "unlocked" \/ error # "none"

\* Every failure is raised by a step of its own phase.
FailureInItsPhase ==
    /\ error \in {"none", "SystemUnreachableError", "UnlockAbortedError",
                  "UnsupportedSystemError", "BootTimeoutError"}
    /\ error # "none" => pc # "unlocked"
    /\ error = "SystemUnreachableError" =>
          /\ pc \in {"wait_for_pre_boot", "check_ssh_connection"}
          /\ steps[Len(steps)] = pc
    /\ error = "UnlockAbortedError" =>
          /\ pc = "wait_for_pre_boot"
          /\ steps = << "wait_for_pre_boot" >>
    /\ error = "UnsupportedSystemError" =>
          /\ pc = "offer_password"
          /\ steps[Len(steps)] = "offer_password"
    /\ error = "BootTimeoutError" =>
          /\ pc = "wait_for_post_boot"
          /\ steps = UnlockSteps

EntryWritten == hostkeys_file # config

\* C13: once unlock_system has returned in a session with a configuration
\* section, the section's entry of the host-key file holds the host keys of
\* the pre-boot and the post-boot probe of that call, whichever of the
\* three strategies detected the post-boot environment.
C13_StoredAfterUnlock ==
    (pc = "unlocked" /\ config_section) =>
        /\ post_server # <<>>
        /\ hostkeys_file = HostKeyOptions(baseline[1], post_server[1])

\* C14: the entry is written only in a call whose pre-boot environment was
\* confirmed by a known host key or by the Dropbear banner and whose
\* post-boot transition was then detected: never in a call that accepted
\* the pre-boot environment on an OpenSSH banner, never in a call that
\* ended in an error.
C14_WrittenOnlyAfterConfirmation ==
    EntryWritten =>
        /\ rule \in {"known_keys", "dropbear"}
        /\ detected # "none"
        /\ error = "none"
        /\ pc = "unlocked"

\* C15: a store_host_keys call with the fingerprints of the previous call
\* (of the same session or of an earlier session for the section) does not
\* write the host-key file.
C15_RepeatedCallWritesNothing ==
    \A w \in DOMAIN writers :
        writers[w].repeat => ~writers[w].wrote

\* The section's entry holds the host keys that session w wrote last.
HoldsWritten(w) ==
    /\ known_hosts[w] # <<>>
    /\ known_hosts[w][1].pre = writers[w].written[1].pre
    /\ known_hosts[w][1].post = writers[w].written[1].post

\* Compared with the file before the first call: a section that no call
\* wrote is as it was, the other option of every section is as it was, a
\* section that was added has the two host-key options only, and a section
\* that was written holds the host keys written last.
FrameOfCalls ==
    writers # <<>> =>
        \A s \in FileSections :
            /\ (s \notin Writers \/ writers[s].written = <<>>) =>
                  known_hosts[s] = known_hosts0[s]
            /\ known_hosts0[s] # <<>> =>
                  /\ known_hosts[s] # <<>>
                  /\ known_hosts[s][1].other = known_hosts0[s][1].other
            /\ (known_hosts0[s] = <<>> /\ known_hosts[s] # <<>>) =>
                  known_hosts[s][1].other = <<>>
            /\ (s \in Writers /\ writers[s].written # <<>>) => HoldsWritten(s)

\* A step removes no section and no option from the file.
NothingRemoved ==
    \A s \in FileSections :
        known_hosts[s] # <<>> =>
            /\ known_hosts'[s] # <<>>
            /\ \A option \in {"pre", "post", "other"} :
                  known_hosts[s][1][option] # <<>>
                     => known_hosts'[s][1][option] # <<>>

\* C16: a store_host_keys call for a section only adds or overwrites the
\* two host-key options of that section; every other section and every
\* other option is left as it was, and no sequence of calls removes a
\* section or an option.
C16_OnlyHostKeyOptionsOfSection ==
    /\ []FrameOfCalls
    /\ [][NothingRemoved]_vars

\* C16 witness: session 1 added its section to a file that held section 0
\* and an entry with host keys for section 2, and session 2 has overwritten
\* the host keys of its entry.
C16_Witness ==
    /\ writers # <<>>
    /\ known_hosts0[1] = <<>>
    /\ known_hosts[1] # <<>>
    /\ known_hosts0[2] # <<>>
    /\ known_hosts0[2][1].post # <<>>
    /\ writers[2].written # <<>>
    /\ known_hosts[2][1].post # known_hosts0[2][1].post

\* C17: when two sessions for different sections have called
\* store_host_keys at the same time and both calls are over, the file holds
\* the host keys that each of them wrote.
C17_NoLostUpdate ==
    (writers # <<>> /\ \A w \in Writers : writers[w].pc = "idle") =>
        \A w \in Writers : writers[w].written # <<>> => HoldsWritten(w)

\* C18: watch_all_systems has one worker per section, and a worker that
\* raised or that is blocked does not end the other workers: none of them
\* is terminated.
C18_WorkersIsolated ==
    pool # <<>> =>
        /\ DOMAIN pool = Sections
        /\ \A n \in Sections :
              (\E m \in Sections \ {n} : pool[m] \in {"raised", "blocked"})
                 => pool[n] # "terminated"

\* The steps of unlock_system(server), which is given the fingerprint.
WatchSteps == << "check_ssh_connection", "offer_password", "wait_for_post_boot" >>

\* In an iteration of watch_system, after its scan.
InWatchIteration == mode = "watch" /\ pc # "watch_system"

\* The iteration's scan showed one of the known pre-boot host keys.
WatchMatch == known_keys \cap server[1].host_keys # {}

\* Every scan but the first one follows time.sleep(watch_interval).
ProbeFollowsSleep ==
    (pc # "watch_system" /\ pc' = "watch_system")
        => pc \in {"watch_sleep", "unlocked"}

\* C19: in an iteration of watch_system whose scan shows a known pre-boot
\* host key, unlock_system runs with the scanned fingerprint as baseline and
\* without wait_for_pre_boot; in an iteration whose scan shows other keys or
\* none, no step of unlock_system runs, nothing is raised, and the loop
\* sleeps before the next scan.
C19_WatchIteration ==
    /\ [](InWatchIteration =>
            /\ WatchMatch =>
                  /\ pc \in {"check_ssh_connection", "offer_password",
                             "wait_for_post_boot", "unlocked"}
                  /\ IsPrefix(steps, WatchSteps)
                  /\ pc = "unlocked" => steps = WatchSteps
                  /\ baseline # <<>> => baseline = server
                  /\ rule = "none"
            /\ ~WatchMatch =>
                  /\ pc = "watch_sleep"
                  /\ steps = <<>>
                  /\ executed = <<>>
                  /\ connected = <<>>
                  /\ baseline = <<>>
                  /\ error = "none")
    /\ [][ProbeFollowsSleep]_vars

\* C19 witness: a scan with a known host key among others, and the
\* unlock_system it started has returned.
C19_Witness ==
    /\ mode = "watch"
    /\ pc = "unlocked"
    /\ WatchMatch
    /\ server[1].host_keys # known_keys
    /\ baseline = server
    /\ steps = WatchSteps

\* C20: watch_system never ends: no step of an unlock it started raises out
\* of it, and after every unlock, failed or not, it sleeps and scans again.
C20_WatchNeverRaises ==
    mode = "watch" => error = "none"


\* C21: the control directory of a session exists exactly while the `with`
\* statement around the session is open: it is created on entry, and once
\* the scope has been left, on return or on any error raised by a step of
\* the session, it no longer exists.
C21_ControlDirectoryOnlyInScope ==
    /\ control_directory = "exists" <=> main_pc = "body"
    /\ main_pc = "exit" /\ steps # <<>> => control_directory = "removed"

\* The wait for the post-boot environment timed out and the scope was left.
C21_Witness ==
    /\ main_pc = "exit"
    /\ error = "BootTimeoutError"
    /\ control_directory = "removed"


\* C22: when issuing the reboot command raises RemoteConnectFailed, the
\* error is swallowed and reboot_remote_system continues with the wait for
\* the reboot (no configuration section) or with the unlock (configuration
\* section), as when the command returns.
C22_DroppedConnectionSwallowed ==
    [][reboot.pc = "reboot" /\ reboot'.dropped =>
           /\ reboot'.error = "none"
           /\ exit_code' = <<>>
           /\ reboot'.pc = IF config_section THEN "with" ELSE "get_uptime"
           /\ main_pc' = IF config_section
                         THEN "with" ELSE "reboot_remote_system"]_vars

\* The connection was dropped while the reboot command ran and the call
\* is about to unlock the system.
C22_Witness ==
    /\ reboot.dropped
    /\ reboot.error = "none"
    /\ main_pc = "with"

\* C23: reboot_remote_system never issues the reboot command to a host
\* that uses root disk encryption and has no configuration section: it
\* raises ValueError before any reboot command is executed.
C23_NoRebootWithoutUnlockConfig ==
    (command = "reboot-remote-system" /\ reboot.needs_unlock
        /\ ~config_section) =>
        /\ ~reboot.issued
        /\ reboot.error = "ValueError"
        /\ reboot.pc = "get_post_context"

\* The reboot of an encrypted system without a section was refused and
\* main() has left with the status of an unexpected exception.
C23_Witness ==
    /\ reboot.needs_unlock
    /\ ~config_section
    /\ reboot.error = "ValueError"
    /\ ~reboot.issued
    /\ exit_code = <<3>>


\* What the operation of the command raised, "none" when nothing.
Raised == IF error # "none" THEN error ELSE reboot.error

\* The two commands have left with the status that belongs to what was
\* raised.
ExitByKind ==
    main_pc = "exit" =>
        /\ Raised \in EncryptedSystemErrors => exit_code = <<2>>
        /\ Raised \notin EncryptedSystemErrors \cup {"none"} =>
               exit_code = <<3>>
        /\ ParseArguments(arguments, profile) = "Exception" =>
               exit_code = <<1>>
        /\ exit_code = <<0>> =>
               Raised = "none" /\ ParseArguments(arguments, profile) # "Exception"

\* After an error was raised no step of the session is entered again.
NoRetry == Raised # "none" => steps' = steps /\ error' = error

\* C24: in unlock-remote-system and in reboot-remote-system every domain
\* error (UnlockAborted, SystemUnreachable, BootTimeout, UnsupportedSystem)
\* ends the process with status 2, every other exception with status 3 and
\* an argument error with status 1; the statuses differ from each other,
\* and no domain error is retried by main().
C24_ExitCodesByKind == []ExitByKind /\ [][NoRetry]_vars

\* reboot-remote-system has left with status 2 after UnsupportedSystemError.
C24_Witness ==
    /\ command = "reboot-remote-system"
    /\ main_pc = "exit"
    /\ error = "UnsupportedSystemError"
    /\ exit_code = <<2>>

\* C25: a connection profile expression that cannot be parsed, on the
\* command line or in a configuration section, ends the command with the
\* status of a domain error, not with the status of an argument error or
\* of an unexpected exception.
C25_UnparsableProfileIsDomainError ==
    (main_pc = "exit" /\ ExpressionRaises(profile)) => exit_code = <<2>>


\* C26: when a password is configured and the named pipe exists,
\* offer_password writes the password to the pipe exactly once, without a
\* trailing newline, and does nothing else: no process is looked up or
\* killed, no key script is created and the cryptroot program is not run.
C26_SecretWrittenOnceToPipe ==
    (steps # <<>> /\ pre_host[1].named_pipe) =>
        /\ named_pipe = << secret >>
        /\ executed = << Probe("have_named_pipe", TRUE),
                         Did("write_to_named_pipe") >>


\* The header names Dropbear, in whatever case.
MentionsDropbear(header) ==
    \E i \in DOMAIN header : header[i] \in {"dropbear", "Dropbear", "DROPBEAR"}

\* C27: when no pre-boot host keys are known and the banner of the first
\* probe contains "dropbear" in any case, wait_for_pre_boot returns the
\* fingerprint of that probe after this one probe: it does not sleep for
\* retry_interval, does not probe again and does not raise.
C27_DropbearBannerReturnsAtOnce ==
    [][(/\ pc = "wait_for_pre_boot"
        /\ Running
        /\ server = <<>>
        /\ known_keys = {}
        /\ server' # <<>>
        /\ MentionsDropbear(server'[1].header)) =>
           /\ pc' = "check_ssh_connection"
           /\ error' = "none"
           /\ rule' = "dropbear"
           /\ elapsed' = 0
           /\ steps' = <<"wait_for_pre_boot">>]_vars

\* No keys are known and the wait has returned a Dropbear fingerprint that
\* carries host keys.
C27_Witness ==
    /\ pc = "check_ssh_connection"
    /\ known_keys = {}
    /\ rule = "dropbear"
    /\ MentionsDropbear(server[1].header)
    /\ server[1].host_keys # {}


\* C28: when an interactive session finds only an OpenSSH banner in
\* wait_for_pre_boot, the operator is asked: when the operator declines,
\* UnlockAbortedError is raised and neither the connection check nor the
\* delivery of the password follows; when the operator consents, the wait
\* returns the fingerprint of the probe and the sequence goes on.
C28_OperatorDecidesOnOpenSSH ==
    (interactive /\ rule = "openssh") =>
        /\ match_header(server[1], "openssh")
        /\ consent =>
              /\ error # "UnlockAbortedError"
              /\ pc # "wait_for_pre_boot"
              /\ Len(steps) > 1 => connected # <<>>
        /\ ~consent =>
              /\ error = "UnlockAbortedError"
              /\ pc = "wait_for_pre_boot"
              /\ steps = <<"wait_for_pre_boot">>
              /\ connected = <<>>
              /\ executed = <<>>
              /\ password = <<>>

\* The operator declined and the call has ended with UnlockAbortedError.
C28_Witness ==
    /\ interactive
    /\ rule = "openssh"
    /\ ~consent
    /\ error = "UnlockAbortedError"


\* The installed packages of one kernel version.
GroupOf(version) ==
    {package \in manager.installed_packages : package.version_in_name = version}

\* The groups that removable_package_groups holds once it was read.
Removable ==
    {manager.removable_package_groups[1][i] :
        i \in DOMAIN manager.removable_package_groups[1]}

\* The image of the running kernel is one of the installed packages.
ActiveInstalled ==
    [kind |-> "image", version_in_name |-> manager.active_kernel_release]
        \in manager.installed_packages

\* The words of cleanup_command.
CommandWords ==
    {manager.cleanup_command[i] : i \in DOMAIN manager.cleanup_command}

\* C29: whatever packages are installed and whatever preserve_count is (0
\* and 1 included), the package group of the active kernel is not one of
\* removable_package_groups and none of its packages is named in
\* cleanup_command.
C29_ActiveKernelNeverRemoved ==
    (manager.pc \in {"removable_package_groups", "cleanup_command"}
        /\ ActiveInstalled) =>
        /\ GroupOf(manager.active_kernel_release) \notin Removable
        /\ \A package \in GroupOf(manager.active_kernel_release) :
              PackageName(package) \notin CommandWords

\* Nothing is to be preserved, the active kernel is the oldest of three with
\* its headers, and the command removes the other packages.
C29_Witness ==
    /\ manager.pc = "cleanup_command"
    /\ manager.preserve_count = 0
    /\ manager.active_kernel_release = 1
    /\ manager.installed_packages = KernelPackages
    /\ Len(manager.cleanup_command) = 3 + 2 * (MaxKernels - 1)

\* The versions that a kernel image is installed of.
InstalledKernels ==
    {version \in KernelVersions :
        \E package \in GroupOf(version) : package.kind = "image"}

\* The `count` newest of the versions.
Newest(versions, count) ==
    {version \in versions :
        Cardinality({newer \in versions : newer > version}) < count}

\* C30: the preserve_count newest installed kernel versions are preserved:
\* none of the preserve_count newest package groups that contain a kernel
\* image is one of removable_package_groups, wherever the active kernel
\* is among them.
C30_NewestKernelsPreserved ==
    manager.pc \in {"removable_package_groups", "cleanup_command"} =>
        \A version \in Newest(InstalledKernels, manager.preserve_count) :
            GroupOf(version) \notin Removable


\* C35: when pre_server carries no host keys and the ports of the pre-boot
\* and the post-boot profile are equal, wait_for_post_boot returns only
\* after a scan whose header is not empty and differs from the header of
\* pre_server, which is not empty either (with an empty header of
\* pre_server the wait ends in BootTimeoutError only); when the ports
\* differ it scans nothing and returns on the first connection test that
\* succeeds.
C35_NoKeysBannerOrReachability ==
    (server[1].host_keys = {} /\ method # "none") =>
        /\ same_port =>
              /\ method = "server headers"
              /\ pc = "unlocked" =>
                    /\ detected = "server header"
                    /\ server[1].header # <<>>
                    /\ post_server[1].header # <<>>
                    /\ post_server[1].header # server[1].header
              /\ (server[1].header = <<>> /\ Terminated) =>
                    error = "BootTimeoutError"
        /\ ~same_port =>
              /\ method = "port numbers"
              /\ post_server = <<>>
              /\ pc = "unlocked" <=> detected = "port number"
              /\ pc = "wait_for_post_boot" => detected = "none"

\* The header of pre_server is empty, the ports are equal and the wait has
\* timed out although the last scan showed a header.
C35_Witness ==
    /\ server[1].host_keys = {}
    /\ server[1].header = <<>>
    /\ same_port
    /\ post_server # <<>>
    /\ post_server[1].header # <<>>
    /\ error = "BootTimeoutError"


\* C37: every entry written to the host-key file holds pre-boot host keys
\* and post-boot host keys that are both not empty and not equal:
\* store_host_keys is called only where wait_for_post_boot detected a
\* change of host keys, and the pre-boot keys stored are the host keys of
\* the ServerDetails the wait was given.
C37_StoredKeysNonEmptyAndDifferent ==
    EntryWritten =>
        LET pre == get_known_host_keys(hostkeys_file.pre)
            post == get_known_host_keys(hostkeys_file.post)
        IN  /\ pre # {}
            /\ post # {}
            /\ pre # post
            /\ detected = "host keys"
            /\ pre = baseline[1].host_keys
            /\ post = post_server[1].host_keys

\* An entry was written whose post-boot keys share a key with its
\* pre-boot keys.
C37_Witness ==
    /\ EntryWritten
    /\ pc = "unlocked"
    /\ get_known_host_keys(hostkeys_file.pre)
          \cap get_known_host_keys(hostkeys_file.post) # {}


\* C38: a watch_system run that starts with no known pre-boot host keys
\* never calls unlock_system and never offers the password, whatever the
\* scans return and however long it runs; the known keys the loop compares
\* with are those read once when watch_system started.
C38_WatchWithoutKnownKeysNeverUnlocks ==
    mode = "watch" =>
        /\ known_keys = {} =>
              /\ pc \in {"watch_system", "watch_sleep"}
              /\ steps = <<>>
              /\ connected = <<>>
              /\ executed = <<>>
              /\ password = <<>>
              /\ hostkeys_file = config
        /\ InWatchIteration => (pc = "watch_sleep" <=> ~WatchMatch)

\* No keys are known, a scan has shown the Dropbear header with host keys,
\* and the loop sleeps.
C38_Witness ==
    /\ mode = "watch"
    /\ known_keys = {}
    /\ pc = "watch_sleep"
    /\ server[1].host_keys # {}
    /\ match_header(server[1], "dropbear")


\* C39: a session without a configuration section never writes to the
\* host-key file, however the phases are detected, a post-boot
\* environment detected by a change of host keys included.
C39_NoSectionNoWrite ==
    ~config_section => hostkeys_file = [pre |-> <<>>, post |-> <<>>]

\* A session without a section was unlocked after a change of host keys.
C39_Witness ==
    /\ ~config_section
    /\ pc = "unlocked"
    /\ detected = "host keys"
    /\ post_server[1].host_keys # baseline[1].host_keys

\* The positions of the log of offer_password that hold the command `entry`.
Positions(entry) == {i \in DOMAIN delivery.log : delivery.log[i] = entry}

\* The positions of the log that hold a `ps` or a `kill`.
ProcessSteps ==
    {i \in DOMAIN delivery.log : delivery.log[i].command \in {"ps", "kill -9"}}

\* The place of a command of the log in the key-script delivery: killing
\* the prompt, the key script, its mode, the configuration read and
\* rewritten, cryptroot, killing the emergency shell.
DeliveryRank(i) ==
    LET entry == delivery.log[i]
    IN  CASE entry = WriteFile(KeyScript) -> 2
          [] entry = Chmod(KeyScript) -> 3
          [] entry = ReadFile(CryptrootConfig) -> 4
          [] entry = WriteFile(CryptrootConfig) -> 5
          [] entry.command = CryptrootProgram -> 6
          [] OTHER -> IF \E j \in 1..(i - 1) :
                           delivery.log[j].command \notin {"ps", "kill -9"}
                      THEN 7 ELSE 1

\* Every entry of the cryptroot configuration ends in the keyscript option
\* that names the key script.
ConfigNamesKeyScript ==
    \A i \in DOMAIN delivery.cryptroot_config :
        LET entry == delivery.cryptroot_config[i]
        IN  entry[Len(entry)] = "keyscript=" \o KeyScript

\* C33: the key-script delivery runs its commands in the order kill the
\* prompt, write the key script, chmod it, rewrite the cryptroot
\* configuration, run cryptroot without a terminal, kill the emergency
\* shell, each at most once; cryptroot is never run before the key script
\* is executable and every entry of the configuration names it.
C33_KeyScriptDeliveryInOrder ==
    delivery.mechanism = "key script" =>
        /\ \A i, j \in DOMAIN delivery.log :
             i < j => DeliveryRank(i) < DeliveryRank(j)
                      \/ (DeliveryRank(i) = DeliveryRank(j)
                          /\ DeliveryRank(i) \in {1, 7}
                          /\ j = i + 1
                          /\ delivery.log[i].command = "ps"
                          /\ delivery.log[j].command = "kill -9")
        /\ \A i \in DOMAIN delivery.log :
             delivery.log[i].command = CryptrootProgram =>
                 /\ ~delivery.log[i].tty
                 /\ \E j \in 1..(i - 1) : delivery.log[j] = Chmod(KeyScript)
                 /\ \E j \in 1..(i - 1) : delivery.log[j] = WriteFile(CryptrootConfig)
                 /\ delivery.key_script = "executable"
                 /\ ConfigNamesKeyScript
        /\ (delivery.pc = "returned" =>
                /\ {DeliveryRank(i) : i \in DOMAIN delivery.log} = 1..7
                /\ pc = "wait_for_post_boot")

\* The key-script delivery returned after it killed the prompt and the
\* emergency shell, with a configuration of MaxEntries entries rewritten.
C33_Witness ==
    /\ delivery.mechanism = "key script"
    /\ delivery.pc = "returned"
    /\ Len(delivery.log) = 9
    /\ delivery.log[2].command = "kill -9"
    /\ delivery.log[9].command = "kill -9"
    /\ Len(delivery.cryptroot_config) = MaxEntries
    /\ ConfigNamesKeyScript

\* C34: failing to locate the process of the interactive prompt or of the
\* emergency shell, or failing to kill the one located, never makes
\* offer_password raise: the remaining steps run and the session goes on to
\* wait_for_post_boot.
C34_KillFailuresNeverRaise ==
    delivery.mechanism \in {"key script", "interactive prompt"} =>
        /\ delivery.pc # "raised"
        /\ error = "none"
        /\ (delivery.pc = "returned" =>
                /\ pc = "wait_for_post_boot"
                /\ \E i \in DOMAIN delivery.log :
                     delivery.log[i].command = CryptrootProgram)

\* C40: find_process_id returns None or the id of the first listed process
\* other than process 1 whose tokens contain the program name; it never
\* returns process 1.
C40_FindProcessIdNeverInit ==
    (mode = "find_process_id" /\ delivery.pc = "returned") =>
        LET call == delivery.found[1]
            named == {i \in DOMAIN call.listing :
                        /\ call.listing[i].pid \notin {<<>>, <<1>>}
                        /\ \E t \in DOMAIN call.listing[i].command :
                             call.listing[i].command[t] = call.program}
        IN  /\ call.pid # <<1>>
            /\ (named = {} => call.pid = <<>>)
            /\ (named # {} =>
                  \E i \in named :
                     /\ \A j \in named : i <= j
                     /\ call.pid = call.listing[i].pid)

\* Process 1 is listed first and runs the program looked for; the process
\* listed after it runs it too and is the one returned.
C40_Witness ==
    /\ mode = "find_process_id"
    /\ delivery.pc = "returned"
    /\ Len(delivery.found[1].listing) = 2
    /\ delivery.found[1].listing[1].pid = <<1>>
    /\ delivery.found[1].listing[1].command = <<EmergencyShell, "-i">>
    /\ delivery.found[1].listing[2].command = <<EmergencyShell, "-i">>
    /\ delivery.found[1].program = EmergencyShell
    /\ delivery.found[1].pid = <<2>>

\* cleanup_packages has ended, by a return or by an exception.
CleanupEnded == mode = "cleanup_packages" /\ manager.pc # "cleanup_packages"

\* The commands that cleanup_packages ran on the system.
CommandsRun == {context.commands[i] : i \in DOMAIN context.commands}

\* An `apt-get remove` was run on the system.
RemoveWasRun ==
    \E i \in DOMAIN context.commands :
        /\ Len(context.commands[i]) >= 2
        /\ context.commands[i][1] = <<"apt-get">>
        /\ context.commands[i][2] = <<"remove">>

\* C31: cleanup_packages raises CleanupError whenever more than one kernel
\* image meta package is installed and force is False, and then no apt-get
\* remove was run; with force, or with at most one meta package, it does
\* not raise CleanupError.
C31_MetaPackagesRefused ==
    CleanupEnded =>
        /\ (context.image_meta_packages > 1 /\ ~manager.force) =>
               (manager.pc = "CleanupError" /\ ~RemoveWasRun)
        /\ (manager.force \/ context.image_meta_packages <= 1) =>
               manager.pc # "CleanupError"

\* The running kernel is the newest installed one on the system `system`.
NewestRuns(system) ==
    /\ system.installed_packages # {}
    /\ \A package \in system.installed_packages :
         package.version_in_name <= system.kernel_release
    /\ \E package \in system.installed_packages :
         package.version_in_name = system.kernel_release

\* C36: cleanup_packages removes the reboot-required signal files only when
\* no reboot was required before the removal, the newest kernel runs after
\* it, the packages installed after it are a subset of those before and the
\* run is not a dry run; otherwise signal files that exist stay.
C36_SignalFilesRemovedOnlyWhenSafe ==
    [][ IF \E i \in DOMAIN context'.commands :
              context'.commands[i] = RemoveSignalFiles
        THEN /\ ~context.reboot_required
             /\ NewestRuns(context')
             /\ context'.installed_packages \subseteq context.installed_packages
             /\ ~dry_run(manager.apt_options)
        ELSE context.reboot_required => context'.reboot_required ]_vars

\* cleanup_packages removed kernel packages, the removal made apt signal a
\* reboot, and the signal files were removed again.
C36_Witness ==
    /\ CleanupEnded
    /\ manager.pc = "returned"
    /\ manager.result = <<FALSE>>
    /\ RemoveSignalFiles \in CommandsRun
    /\ RemoveWasRun
    /\ ~context.reboot_required

\* The place of a command of the system's log in upgrade_remote_system.
UpgradeRank(command_line) ==
    CASE command_line = Update -> 1
      [] command_line = DistUpgrade -> 2
      [] command_line = Clean -> 3
      [] command_line = Reboot -> 4
      [] command_line = AutoRemove -> 6
      [] OTHER -> 5

\* The commands of the log are in the order of the steps, the commands of
\* cleanup_packages together, every other one at most once.
UpgradeInOrder ==
    \A i, j \in DOMAIN context.commands :
        i < j => \/ UpgradeRank(context.commands[i]) < UpgradeRank(context.commands[j])
                 \/ /\ UpgradeRank(context.commands[i]) = 5
                    /\ UpgradeRank(context.commands[j]) = 5

\* The system was rebooted by upgrade_remote_system.
WasRebooted == Reboot \in CommandsRun /\ upgrade.pc # "raised"

\* C32: upgrade_remote_system runs update, dist-upgrade, clean, the
\* optional reboot, the old-kernel cleanup and autoremove in this order;
\* it reboots, at most once and before the cleanup, exactly when the
\* reboot-required file exists or the newest kernel is not running; the
\* cleanup decides on the kernel that runs after the reboot; a CleanupError
\* of the cleanup does not keep autoremove from running.
C32_UpgradeStepsInOrder ==
    /\ [](mode = "upgrade" =>
            /\ UpgradeInOrder
            /\ (upgrade.pc = "returned" =>
                    {1, 2, 3, 6} \subseteq
                        {UpgradeRank(context.commands[i]) : i \in DOMAIN context.commands})
            /\ ((WasRebooted /\ manager.summary # <<>>) =>
                    manager.summary[1].active_kernel_release = context.kernel_release)
            /\ ((manager.pc = "CleanupError" /\ upgrade.pc # "cleanup_packages") =>
                    AutoRemove \in CommandsRun))
    /\ [][ (upgrade.pc = "reboot_required" /\ upgrade'.pc # "raised") =>
               ((upgrade'.pc = "reboot_helper")
                   <=> (context.reboot_required \/ ~NewestRuns(context))) ]_vars

\* The upgrade installed a newer kernel, the system was rebooted onto it,
\* the cleanup refused with CleanupError and autoremove ran.
C32_Witness ==
    /\ mode = "upgrade"
    /\ upgrade.pc = "returned"
    /\ manager.pc = "CleanupError"
    /\ Len(context.commands) = 5
    /\ context.commands[4] = Reboot
    /\ context.commands[5] = AutoRemove
    /\ manager.summary[1].active_kernel_release = MaxKernels

====
